---- MODULE Spec2Model ----
(***************************************************************************)
(* Model of the storage sink of socflow (src/src/database/sqlite.py) as    *)
(* it is used by concurrent collection workers: the posts table with its   *)
(* unique constraint, the manager's threading.Lock, and the operations     *)
(* insert_post, insert_posts, get_posts, get_post_count and close.         *)
(*                                                                         *)
(* A worker is a thread calling the manager.  insert_posts is modelled in  *)
(* three steps (the call, the lock acquisition with the existing-row       *)
(* lookup, and the processing loop with the commit and the release of the  *)
(* lock); get_post_count in two (the call, the locked count); insert_post, *)
(* get_posts and close in one step each (they take no lock).               *)
(***************************************************************************)
EXTENDS Integers, Sequences, FiniteSets, TLC

\* ---------------------------------------------------------------- bounds
\* Total number of posts handed to insert_post / insert_posts in one run.
MaxPosts == 3
\* Total number of calls made on the manager in one run.
MaxCalls == 2

\* ---------------------------------------------------------------- domains
Workers == {"w1", "w2"}
NoWorker == "none"
None == "None"

Platforms == {"reddit", "bluesky"}
\* (platform, object_id) pairs of the posts the workers collect
Keys == {<<"reddit", "a">>, <<"reddit", "b">>, <<"bluesky", "a">>}
Texts == {"x", "y"}
\* A stamp stands for the values a collection cycle reads for the fields
\* other than text (created_at, metrics, raw_data, title, attribute bag).
Stamps == {"s1", "s2"}

\* json.dumps(value, default=str) on the values of the model
JsonDumps(v) ==
    CASE v = "s1" -> "json(s1)"
      [] v = "s2" -> "json(s2)"
      [] OTHER -> "json(str)"

\* BasePost / RedditPost / BlueskyPost: the fields the sink reads.
\* Only RedditPost declares a title; attrs stands for the rest of the
\* platform-specific attribute bag (subreddit, is_nsfw, handle, ...).
MkPost(k, t, s) ==
    [platform |-> k[1], object_id |-> k[2], text |-> t, created_at |-> s,
     metrics |-> s, raw_data |-> s,
     title |-> IF k[1] = "reddit" THEN s ELSE None, attrs |-> s]

\* The stamp of the posts a worker submits: the first worker's collector
\* reads the values the stored rows were built from, the second one's
\* reads newer values.
StampOf(w) == IF w = "w1" THEN "s1" ELSE "s2"

\* The posts worker w can hand to the sink
PostsOf(w) == {MkPost(k, t, StampOf(w)) : k \in Keys, t \in Texts}

\* hasattr(post, 'title')
HasTitle(post) == post.platform = "reddit"

PostKey(post) == <<post.platform, post.object_id>>

\* SQLiteManager._post_to_db_row: the row built from a post (id assigned
\* by the database at flush time)
post_to_db_row(post) ==
    [id |-> 0, platform |-> post.platform, object_id |-> post.object_id,
     text |-> post.text, created_at |-> post.created_at,
     raw_data |-> IF post.raw_data # None THEN JsonDumps(post.raw_data) ELSE None,
     metrics |-> JsonDumps(post.metrics),
     title |-> IF HasTitle(post) THEN post.title ELSE None,
     attrs |-> post.attrs]

\* Stores a previous run of the program can have left in the database file
StoredRow(n, k) == [post_to_db_row(MkPost(k, "x", "s1")) EXCEPT !.id = n]
InitStores ==
    { <<>>,
      <<StoredRow(1, <<"reddit", "a">>)>>,
      <<StoredRow(1, <<"reddit", "a">>), StoredRow(2, <<"reddit", "b">>)>> }

VARIABLES
    db,        \* committed rows of table posts, in id order
    db0,       \* the rows the table held when the manager was constructed
    lock,      \* holder of SQLiteManager._lock, or NoWorker
    pc,        \* position of each worker
    op,        \* operation of each worker's current or last call
    batch,     \* the caller's list of posts of that call (objects by reference)
    plat,      \* platform argument of get_posts / get_post_count
    existing,  \* existing_posts of the insert_posts call in progress
    result,    \* "ok" or the exception the last call raised
    ret,       \* return value of the last call
    overlap,   \* the last insert_posts call began while another one was in progress
    closed,    \* close() has returned
    afterClose, \* the worker's current or last call began after close() returned
    ncalls,    \* calls made so far
    nposts     \* posts submitted so far

\* The collection scheduler (src/src/tui.py, src/src/app.py)
VARIABLES
    mode,             \* the scheduler that runs: "tui", "app", or "none"
    credentials,      \* platforms whose credentials are configured
    collectors,       \* SocFlowApp.collectors: the platforms with a collector
    enabled,          \* collector.enabled of each platform
    running,          \* SocFlowTUI.running
    collection_stats, \* SocFlowTUI.collection_stats: status, batch size, posts
    last_db_update,   \* platforms with an entry in SocFlowTUI.last_db_update
    total_posts,      \* SocFlowTUI.total_posts
    main,             \* position of the main thread
    tpc,              \* position of each platform's collection thread
    tposts,           \* posts: the batch the thread holds in its current cycle
    sleep,            \* seconds of the thread's current or last time.sleep
    raised,           \* what raised in the thread's current cycle, or "none"
    forwarded,        \* insert_posts calls made with the batch of the cycle
    posts_queue,      \* posts_queue of SocFlowApp.collect_continuously
    put_count,        \* batches each thread has put on posts_queue
    get_count,        \* batches of each platform taken off posts_queue
    signalled         \* the interrupt signal has been delivered

schedVars == <<mode, credentials, collectors, enabled, running,
               collection_stats, last_db_update, total_posts, main, tpc,
               tposts, sleep, raised, forwarded, posts_queue, put_count, get_count, signalled>>

\* One collector object and its client (src/src/collectors, src/src/models)
VARIABLES
    cplatform,   \* platform of the collector
    ccredentials, \* the credentials configured for the platform
    cstate,      \* "new", "constructed", or "failed" (the constructor raised)
    cenabled,    \* collector.enabled
    cclients,    \* the collector has a connected client
    crequests,   \* the client's answers to the requests of the last call
    cpath,       \* the branch of collect_continuous the last call took
    cresult,     \* what the last call returned or raised
    cconfig,     \* self.config: the kinds of its list field and numeric bound
    ccall        \* the last validate_config / test_connection / collect call

collVars == <<cplatform, ccredentials, cstate, cenabled, cclients, crequests,
              cpath, cresult, cconfig, ccall>>

storeVars == <<db, db0, lock, pc, op, batch, plat, existing, result, ret,
               overlap, closed, afterClose, ncalls, nposts>>

\* The schema of the stores (create_tables), the status lock of the TUI and
\* the one-shot collection (SocFlowApp.collect_data)
VARIABLES
    separate_databases, \* SQLiteManager.separate_databases
    main_table,         \* the store of self.engine has the table posts
    platform_tables,    \* platforms whose own store has the table posts
    platform_db,        \* rows of the table posts of each platform's own store
    ncreates,           \* create_tables calls made so far
    stats_lock,         \* holder of SocFlowTUI._stats_lock, or NoWorker
    spc,                \* position of each worker in _update_stats
    nstats,             \* _update_stats calls made so far
    requested,          \* collect_data: the platforms it was called with
    todo,               \* collect_data: the platforms the loop has yet to visit
    results             \* collect_data: the dictionary results

oneShotVars == <<requested, todo, results>>

extVars == <<separate_databases, main_table, platform_tables, platform_db,
             ncreates, stats_lock, spc, nstats, oneShotVars>>

vars == <<storeVars, schedVars, collVars, extVars>>

\* nobody is inside _update_stats
StatsIdle ==
    /\ stats_lock = NoWorker
    /\ spc = [w \in Workers |-> "out"]
    /\ nstats = 0

\* collect_data has not been called
OneShotIdle ==
    /\ requested = <<>>
    /\ todo = <<>>
    /\ results = <<>>

\* one store, whose table exists; no create_tables call is in progress
ExtIdle ==
    /\ StatsIdle
    /\ OneShotIdle
    /\ separate_databases = FALSE
    /\ main_table = TRUE
    /\ platform_tables = {}
    /\ platform_db = [p \in Platforms |-> <<>>]
    /\ ncreates = 0

NoExisting == <<>>

\* SocFlowTUI.collection_stats[platform] as __init__ sets it
StartingStats == [status |-> "Starting", size |-> 0, posts |-> 0]

\* the configuration the settings give when nothing is configured: the
\* default list (["all"], ["https://mastodon.social"]) and no bound
DefaultConfig == [list |-> "ok", bound |-> "absent"]

\* no validate_config, test_connection or collect call has been made
NoCall == [name |-> "none", returned |-> "none"]

\* no scheduler has been constructed
SchedIdle ==
    /\ mode = "none"
    /\ credentials = {}
    /\ collectors = {}
    /\ enabled = [p \in Platforms |-> FALSE]
    /\ running = FALSE
    /\ collection_stats = [p \in Platforms |-> StartingStats]
    /\ last_db_update = {}
    /\ total_posts = 0
    /\ main = "none"
    /\ tpc = [p \in Platforms |-> "none"]
    /\ tposts = [p \in Platforms |-> <<>>]
    /\ sleep = [p \in Platforms |-> 0]
    /\ raised = [p \in Platforms |-> "none"]
    /\ forwarded = [p \in Platforms |-> 0]
    /\ posts_queue = <<>>
    /\ put_count = [p \in Platforms |-> 0]
    /\ get_count = [p \in Platforms |-> 0]
    /\ signalled = FALSE

NoResult == [raised |-> FALSE, posts |-> <<>>]

\* no collector is under construction
CollIdle ==
    /\ cplatform = "none"
    /\ ccredentials = "none"
    /\ cstate = "none"
    /\ cenabled = FALSE
    /\ cclients = FALSE
    /\ crequests = <<>>
    /\ cpath = "none"
    /\ cresult = NoResult
    /\ cconfig = DefaultConfig
    /\ ccall = NoCall

\* the storage sink is not in a call
StoreIdle ==
    /\ lock = NoWorker
    /\ pc = [w \in Workers |-> "idle"]
    /\ op = [w \in Workers |-> "none"]
    /\ batch = [w \in Workers |-> <<>>]
    /\ plat = [w \in Workers |-> None]
    /\ existing = [w \in Workers |-> NoExisting]
    /\ result = [w \in Workers |-> "none"]
    /\ ret = [w \in Workers |-> None]
    /\ overlap = FALSE
    /\ afterClose = [w \in Workers |-> FALSE]
    /\ ncalls = 0
    /\ nposts = 0

Init ==
    /\ db0 \in InitStores
    /\ db = db0
    /\ lock = NoWorker
    /\ pc = [w \in Workers |-> "idle"]
    /\ op = [w \in Workers |-> "none"]
    /\ batch = [w \in Workers |-> <<>>]
    /\ plat = [w \in Workers |-> None]
    /\ existing = [w \in Workers |-> NoExisting]
    /\ result = [w \in Workers |-> "none"]
    /\ ret = [w \in Workers |-> None]
    /\ overlap = FALSE
    /\ closed = FALSE
    /\ afterClose = [w \in Workers |-> FALSE]
    /\ ncalls = 0
    /\ nposts = 0
    /\ SchedIdle
    /\ CollIdle
    /\ ExtIdle

\* ------------------------------------------------------- the posts table
NoRow ==
    [id |-> 0, platform |-> None, object_id |-> None, text |-> None,
     created_at |-> None, raw_data |-> None, metrics |-> None,
     title |-> None, attrs |-> None]

\* positions of the rows of a table with a given (platform, object_id)
RowsWithKey(rows, k) ==
    {i \in 1..Len(rows) : rows[i].platform = k[1] /\ rows[i].object_id = k[2]}

Min(S) == CHOOSE m \in S : \A n \in S : m <= n

\* a table declared without the unique constraint
UniqueViolatedNever(rows, row) == FALSE

\* UniqueConstraint('platform', 'object_id'): an INSERT of a row whose pair
\* is already in the table fails
UniqueViolated(rows, row) == RowsWithKey(rows, PostKey(row)) # {}

\* Columns declared on PostTable, and the attributes to_dict reads
PostTableColumns ==
    {"id", "platform", "object_id", "author_handle", "text", "created_at",
     "url", "parent_id", "is_comment", "raw_data", "metrics", "subreddit",
     "title", "is_nsfw", "handle", "display_name", "avatar_url", "is_reply",
     "is_repost", "reply_to", "repost_of", "tags", "instance", "is_reblog",
     "is_sensitive", "reblog_of"}

ToDictReads ==
    {"id", "platform", "object_id", "author_handle", "text", "created_at",
     "tags", "metrics", "url", "parent_id", "is_comment", "raw_data",
     "subreddit", "title", "flair", "is_self", "is_nsfw", "is_locked",
     "is_archived", "is_stickied", "link_url", "domain", "handle",
     "display_name", "avatar_url", "is_reply", "is_repost", "is_quote",
     "reply_to", "repost_of", "quote_of", "images", "links", "instance",
     "is_reblog", "is_sensitive", "is_boosted", "reblog_of", "language",
     "spoiler_text"}

\* json.loads on the strings JsonDumps produces
JsonLoads(j) ==
    CASE j = "json(s1)" -> "s1"
      [] j = "json(s2)" -> "s2"
      [] OTHER -> "str"

\* PostTable.to_dict: reading an attribute the class does not declare
\* raises AttributeError
to_dict(row) ==
    IF ToDictReads \subseteq PostTableColumns
    THEN [error |-> "ok",
          dict |-> [id |-> row.id, platform |-> row.platform,
                    object_id |-> row.object_id, text |-> row.text,
                    created_at |-> row.created_at,
                    metrics |-> IF row.metrics # None THEN JsonLoads(row.metrics) ELSE None,
                    raw_data |-> IF row.raw_data # None THEN JsonLoads(row.raw_data) ELSE None,
                    title |-> row.title, attrs |-> row.attrs]]
    ELSE [error |-> "AttributeError", dict |-> None]

\* ---------------------------------------------------------- insert_posts
\* SQLiteManager._get_existing_posts: for every key of the batch the first
\* stored row with that key, as loaded by the session
get_existing_posts(rows, posts) ==
    LET post_keys == {PostKey(posts[i]) : i \in 1..Len(posts)}
        found == {k \in post_keys : RowsWithKey(rows, k) # {}}
    IN  [k \in found |->
            [kind |-> "row", row |-> rows[Min(RowsWithKey(rows, k))], idx |-> 0]]

\* existing_post.text of an entry of existing_posts: the entry is a loaded
\* row, or (after line 215) the caller's post at position idx of the batch
ExistingText(ref, posts) ==
    IF ref.kind = "row" THEN ref.row.text ELSE posts[ref.idx].text

\* a comparison that also reports a change of the metrics of a stored row
TextOrMetricsChanged(ref, posts, post) ==
    \/ ExistingText(ref, posts) # post.text
    \/ ref.kind = "row" /\ ref.row.metrics # JsonDumps(post.metrics)

\* a comparison that always reports an edit
TextChangedAlways(ref, posts, post) == TRUE

\* the comparison turned around
TextChangedNegated(ref, posts, post) == ExistingText(ref, posts) = post.text

\* existing_post.text != post.text
TextChanged(ref, posts, post) == ExistingText(ref, posts) # post.text

\* existing_posts[post_key] = post  (line 215)
RememberPost(existing_posts, post_key, i) ==
    (post_key :> [kind |-> "post", row |-> NoRow, idx |-> i]) @@ existing_posts

\* the for loop of insert_posts, lines 202-215, from position i on;
\* st = [existing_posts, new_posts, updated_posts], an entry of
\* updated_posts being <<entry of existing_posts, position of the post>>
RECURSIVE ProcessPosts(_, _, _)
ProcessPosts(posts, i, st) ==
    IF i > Len(posts) THEN st
    ELSE LET post == posts[i]
             post_key == PostKey(post)
         IN  IF post_key \in DOMAIN st.existing_posts
             THEN LET existing_post == st.existing_posts[post_key]
                  IN  IF TextChanged(existing_post, posts, post)
                      THEN ProcessPosts(posts, i + 1,
                             [st EXCEPT !.updated_posts =
                                 Append(@, <<existing_post, i>>)])
                      ELSE ProcessPosts(posts, i + 1, st)
             ELSE ProcessPosts(posts, i + 1,
                    [st EXCEPT !.new_posts = Append(@, post_to_db_row(post)),
                               !.existing_posts =
                                   RememberPost(@, post_key, i)])

\* lines 224-229: the assignments made to existing_post from updated_post
UpdateFields(existing_post, updated_post) ==
    [existing_post EXCEPT
        !.text = updated_post.text,
        !.raw_data = IF updated_post.raw_data # None
                     THEN JsonDumps(updated_post.raw_data) ELSE None,
        !.metrics = JsonDumps(updated_post.metrics),
        !.title = IF HasTitle(updated_post) THEN updated_post.title ELSE @]

\* the rows the session loaded in the lookup, by id
LoadedRows(existing_posts) ==
    LET refs == {existing_posts[k] : k \in DOMAIN existing_posts}
        ids == {r.row.id : r \in {q \in refs : q.kind = "row"}}
    IN  [n \in ids |-> (CHOOSE r \in refs : r.kind = "row" /\ r.row.id = n).row]

\* the for loop of lines 222-229 from position j on;
\* acc = [objs |-> loaded rows by id, posts |-> the caller's batch]
RECURSIVE ApplyUpdates(_, _, _)
ApplyUpdates(updated_posts, j, acc) ==
    IF j > Len(updated_posts) THEN acc
    ELSE LET existing_post == updated_posts[j][1]
             updated_post == acc.posts[updated_posts[j][2]]
         IN  IF existing_post.kind = "row"
             THEN ApplyUpdates(updated_posts, j + 1,
                    [acc EXCEPT !.objs[existing_post.row.id] =
                                    UpdateFields(@, updated_post)])
             ELSE ApplyUpdates(updated_posts, j + 1,
                    [acc EXCEPT !.posts[existing_post.idx] =
                                    UpdateFields(@, updated_post)])

\* ids in ascending order
RECURSIVE SortedIds(_)
SortedIds(S) ==
    IF S = {} THEN <<>> ELSE <<Min(S)>> \o SortedIds(S \ {Min(S)})

\* The statements session.commit() flushes: an INSERT for every row of
\* new_posts (session.add_all) and an UPDATE for every loaded row an
\* assignment of lines 224-229 was made to
FlushWrites(new_posts, updated_posts, objs) ==
    LET dirty == {updated_posts[j][1].row.id :
                    j \in {i \in 1..Len(updated_posts) :
                              updated_posts[i][1].kind = "row"}}
        ids == SortedIds(dirty)
    IN  [i \in 1..Len(new_posts) |-> [kind |-> "insert", row |-> new_posts[i]]]
        \o [i \in 1..Len(ids) |-> [kind |-> "update", row |-> objs[ids[i]]]]

\* Executes the statements writes[i..] inside one transaction on rows.
\* The first failing statement ends it: an INSERT that breaks the unique
\* constraint (IntegrityError), or a storage fault after limit statements
\* (OperationalError; limit = Len(writes) is a run without fault).
RECURSIVE Execute(_, _, _, _)
Execute(rows, writes, i, limit) ==
    IF i > Len(writes) THEN [rows |-> rows, error |-> "ok"]
    ELSE IF i > limit THEN [rows |-> rows, error |-> "OperationalError"]
    ELSE LET wr == writes[i]
         IN  IF wr.kind = "insert"
             THEN IF UniqueViolated(rows, wr.row)
                  THEN [rows |-> rows, error |-> "IntegrityError"]
                  ELSE Execute(Append(rows, [wr.row EXCEPT !.id = Len(rows) + 1]),
                               writes, i + 1, limit)
             ELSE Execute([rows EXCEPT ![wr.row.id] =
                              [@ EXCEPT !.text = wr.row.text,
                                        !.raw_data = wr.row.raw_data,
                                        !.metrics = wr.row.metrics,
                                        !.title = wr.row.title]],
                          writes, i + 1, limit)

\* a rollback that leaves the statements executed so far in the table
session_rollback_keeps(committed, written) == written

\* session.rollback(): the table is what was committed before the
\* transaction; what the transaction wrote is discarded
session_rollback(committed, written) == committed

\* a failed transaction that leaves the table empty
CommitOrRollbackEmpties(committed, writes, limit) ==
    LET out == Execute(committed, writes, 1, limit)
    IN  [rows |-> IF out.error = "ok" THEN out.rows ELSE <<>>,
         error |-> out.error]

\* session.commit() / the except branch: the table after the transaction
CommitOrRollback(committed, writes, limit) ==
    LET out == Execute(committed, writes, 1, limit)
    IN  [rows |-> IF out.error = "ok" THEN out.rows
                  ELSE session_rollback(committed, out.rows),
         error |-> out.error]

\* a commit made only when a stored row was edited
NeedsCommitUpdatesOnly(st) == st.updated_posts # <<>>

\* `if new_posts or updated_posts:` (line 231)
NeedsCommit(st) == st.new_posts # <<>> \/ st.updated_posts # <<>>

\* a lock that never makes a caller wait
LockFreeAlways == TRUE

\* with self._lock: the lock can be taken when nobody holds it
LockFree == lock = NoWorker

\* the outcomes of a query: it may fail (storage unavailable), and it fails
\* when the store of self.engine has no table posts
QueryFaults == IF main_table THEN BOOLEAN ELSE {TRUE}

OtherInsertInProgress(w) ==
    \E v \in Workers \ {w} : pc[v] \in {"ip_wait", "ip_locked"}

\* insert_posts(posts), lines 183-189: the call; an empty list returns at once
InsertPostsCall(w) ==
    /\ pc[w] = "idle"
    /\ ncalls < MaxCalls
    /\ \E n \in 0..(MaxPosts - nposts) :
         \E posts \in [1..n -> PostsOf(w)] :
            /\ batch' = [batch EXCEPT ![w] = posts]
            /\ nposts' = nposts + n
            /\ pc' = [pc EXCEPT ![w] = IF posts = <<>> THEN "idle" ELSE "ip_wait"]
            /\ result' = [result EXCEPT ![w] = IF posts = <<>> THEN "ok" ELSE "none"]
    /\ op' = [op EXCEPT ![w] = "insert_posts"]
    /\ ret' = [ret EXCEPT ![w] = None]
    /\ overlap' = OtherInsertInProgress(w)
    /\ afterClose' = [afterClose EXCEPT ![w] = closed]
    /\ ncalls' = ncalls + 1
    /\ UNCHANGED <<db, db0, lock, plat, existing, closed>>
    /\ UNCHANGED <<schedVars, collVars, extVars>>

\* a lookup whose exception leaves the lock with the caller
InsertPostsLookupKeepsLock(w) ==
    /\ pc[w] = "ip_wait"
    /\ LockFree
    /\ \E fault \in QueryFaults :
         IF fault
         THEN /\ result' = [result EXCEPT ![w] = "OperationalError"]
              /\ pc' = [pc EXCEPT ![w] = "idle"]
              /\ lock' = w
              /\ UNCHANGED existing
         ELSE /\ existing' = [existing EXCEPT ![w] = get_existing_posts(db, batch[w])]
              /\ lock' = w
              /\ pc' = [pc EXCEPT ![w] = "ip_locked"]
              /\ UNCHANGED result
    /\ UNCHANGED <<db, db0, op, batch, plat, ret, overlap, closed, afterClose,
                   ncalls, nposts>>
    /\ UNCHANGED <<schedVars, collVars, extVars>>

\* lines 192-196: the lock is taken and the existing rows are looked up;
\* a query that fails (storage unavailable) leaves through the except
\* and finally branches, which release the lock
InsertPostsLookup(w) ==
    /\ pc[w] = "ip_wait"
    /\ LockFree
    /\ \E fault \in QueryFaults :
         IF fault
         THEN /\ result' = [result EXCEPT ![w] = "OperationalError"]
              /\ pc' = [pc EXCEPT ![w] = "idle"]
              /\ UNCHANGED <<lock, existing>>
         ELSE /\ existing' = [existing EXCEPT ![w] = get_existing_posts(db, batch[w])]
              /\ lock' = w
              /\ pc' = [pc EXCEPT ![w] = "ip_locked"]
              /\ UNCHANGED result
    /\ UNCHANGED <<db, db0, op, batch, plat, ret, overlap, closed, afterClose,
                   ncalls, nposts>>
    /\ UNCHANGED <<schedVars, collVars, extVars>>

\* lines 198-215 for the call of worker w: the result of the processing loop
Processed(w) ==
    ProcessPosts(batch[w], 1,
        [existing_posts |-> existing[w], new_posts |-> <<>>,
         updated_posts |-> <<>>])

\* lines 222-229 for the call of worker w: the loaded rows and the caller's
\* posts after the assignments
Updated(w) ==
    ApplyUpdates(Processed(w).updated_posts, 1,
        [objs |-> LoadedRows(existing[w]), posts |-> batch[w]])

\* the statements the commit of worker w's call flushes
WritesOf(w) ==
    FlushWrites(Processed(w).new_posts, Processed(w).updated_posts,
                Updated(w).objs)

\* lines 198-238: the processing loop, the updates, the commit or the
\* rollback, and the release of the lock
InsertPostsCommit(w) ==
    /\ pc[w] = "ip_locked"
    /\ batch' = [batch EXCEPT ![w] = Updated(w).posts]
    /\ IF NeedsCommit(Processed(w))
       THEN \E limit \in 0..Len(WritesOf(w)) :
              LET out == CommitOrRollback(db, WritesOf(w), limit)
              IN  /\ db' = out.rows
                  /\ result' = [result EXCEPT ![w] = out.error]
       ELSE /\ db' = db
            /\ result' = [result EXCEPT ![w] = "ok"]
    /\ lock' = NoWorker
    /\ existing' = [existing EXCEPT ![w] = NoExisting]
    /\ pc' = [pc EXCEPT ![w] = "idle"]
    /\ UNCHANGED <<db0, op, plat, ret, overlap, closed, afterClose, ncalls, nposts>>
    /\ UNCHANGED <<schedVars, collVars, extVars>>

\* ----------------------------------------------------------- insert_post
\* an insert_post on a table without the unique constraint
InsertPostUnchecked(w) ==
    /\ pc[w] = "idle"
    /\ ncalls < MaxCalls
    /\ nposts < MaxPosts
    /\ \E post \in PostsOf(w) : \E limit \in 0..(IF main_table THEN 1 ELSE 0) :
         LET writes == <<[kind |-> "insert", row |-> post_to_db_row(post)]>>
             out == IF limit = 0 THEN CommitOrRollback(db, writes, limit)
                    ELSE [rows |-> Append(db, [writes[1].row EXCEPT
                                                  !.id = Len(db) + 1]),
                          error |-> "ok"]
         IN  /\ batch' = [batch EXCEPT ![w] = <<post>>]
             /\ db' = out.rows
             /\ result' = [result EXCEPT ![w] = out.error]
    /\ op' = [op EXCEPT ![w] = "insert_post"]
    /\ ret' = [ret EXCEPT ![w] = None]
    /\ UNCHANGED overlap
    /\ afterClose' = [afterClose EXCEPT ![w] = closed]
    /\ ncalls' = ncalls + 1
    /\ nposts' = nposts + 1
    /\ UNCHANGED <<db0, lock, pc, plat, existing, closed>>
    /\ UNCHANGED <<schedVars, collVars, extVars>>

\* insert_post(post), lines 169-181: no lookup and no lock; the row is
\* added and committed, the unique constraint decides
InsertPost(w) ==
    /\ pc[w] = "idle"
    /\ ncalls < MaxCalls
    /\ nposts < MaxPosts
    /\ \E post \in PostsOf(w) : \E limit \in 0..(IF main_table THEN 1 ELSE 0) :
         LET writes == <<[kind |-> "insert", row |-> post_to_db_row(post)]>>
             out == CommitOrRollback(db, writes, limit)
         IN  /\ batch' = [batch EXCEPT ![w] = <<post>>]
             /\ db' = out.rows
             /\ result' = [result EXCEPT ![w] = out.error]
    /\ op' = [op EXCEPT ![w] = "insert_post"]
    /\ ret' = [ret EXCEPT ![w] = None]
    /\ UNCHANGED overlap
    /\ afterClose' = [afterClose EXCEPT ![w] = closed]
    /\ ncalls' = ncalls + 1
    /\ nposts' = nposts + 1
    /\ UNCHANGED <<db0, lock, pc, plat, existing, closed>>
    /\ UNCHANGED <<schedVars, collVars, extVars>>

\* ------------------------------------------------------------- get_posts
\* the query of get_posts: the rows of the platform, all rows when the
\* platform is None (no offset, no limit)
QueryRows(rows, platform) ==
    SelectSeq(rows, LAMBDA r : platform = None \/ r.platform = platform)

\* lines 293-294: [post.to_dict() for post in posts]
get_posts(rows, platform) ==
    LET posts == QueryRows(rows, platform)
        dicts == [i \in 1..Len(posts) |-> to_dict(posts[i])]
    IN  IF \E i \in 1..Len(posts) : dicts[i].error # "ok"
        THEN [error |-> dicts[Min({i \in 1..Len(posts) : dicts[i].error # "ok"})].error,
              value |-> None]
        ELSE [error |-> "ok", value |-> [i \in 1..Len(posts) |-> dicts[i].dict]]

\* get_posts(platform), lines 273-296: no lock
GetPosts(w) ==
    /\ pc[w] = "idle"
    /\ ncalls < MaxCalls
    /\ \E platform \in Platforms \cup {None} :
         LET out == IF main_table THEN get_posts(db, platform)
                    ELSE [error |-> "OperationalError", value |-> None]
         IN  /\ plat' = [plat EXCEPT ![w] = platform]
             /\ result' = [result EXCEPT ![w] = out.error]
             /\ ret' = [ret EXCEPT ![w] = out.value]
    /\ op' = [op EXCEPT ![w] = "get_posts"]
    /\ UNCHANGED overlap
    /\ afterClose' = [afterClose EXCEPT ![w] = closed]
    /\ ncalls' = ncalls + 1
    /\ UNCHANGED <<db, db0, lock, pc, batch, existing, closed, nposts>>
    /\ UNCHANGED <<schedVars, collVars, extVars>>

\* -------------------------------------------------------- get_post_count
\* query.count() of get_post_count
get_post_count(rows, platform) == Len(QueryRows(rows, platform))

\* get_post_count(platform), line 298: the call
GetPostCountCall(w) ==
    /\ pc[w] = "idle"
    /\ spc[w] \in {"out", "in"}
    /\ ncalls < MaxCalls
    /\ \E platform \in Platforms \cup {None} :
         plat' = [plat EXCEPT ![w] = platform]
    /\ pc' = [pc EXCEPT ![w] = "gc_wait"]
    /\ op' = [op EXCEPT ![w] = "get_post_count"]
    /\ result' = [result EXCEPT ![w] = "none"]
    /\ ret' = [ret EXCEPT ![w] = None]
    /\ UNCHANGED overlap
    /\ afterClose' = [afterClose EXCEPT ![w] = closed]
    /\ ncalls' = ncalls + 1
    /\ spc' = [spc EXCEPT ![w] = IF @ = "in" THEN "counting" ELSE @]
    /\ UNCHANGED <<db, db0, lock, batch, existing, closed, nposts>>
    /\ UNCHANGED <<separate_databases, main_table, platform_tables, platform_db,
                   ncreates, stats_lock, nstats>>
    /\ UNCHANGED oneShotVars
    /\ UNCHANGED <<schedVars, collVars>>

\* a count whose exception leaves the lock with the caller
GetPostCountKeepsLock(w) ==
    /\ pc[w] = "gc_wait"
    /\ LockFree
    /\ \E fault \in QueryFaults :
         IF fault
         THEN /\ result' = [result EXCEPT ![w] = "OperationalError"]
              /\ lock' = w
              /\ UNCHANGED ret
         ELSE /\ lock' = lock
              /\ result' = [result EXCEPT ![w] = "ok"]
              /\ ret' = [ret EXCEPT ![w] = get_post_count(db, plat[w])]
    /\ pc' = [pc EXCEPT ![w] = "idle"]
    /\ UNCHANGED <<db, db0, op, batch, plat, existing, overlap, closed,
                   afterClose, ncalls, nposts>>
    /\ UNCHANGED <<schedVars, collVars, extVars>>

\* lines 301-311: under the lock the rows are counted; the lock is
\* released when the with block is left, also by an exception
GetPostCount(w) ==
    /\ pc[w] = "gc_wait"
    /\ LockFree
    /\ \E fault \in QueryFaults :
         IF fault
         THEN /\ result' = [result EXCEPT ![w] = "OperationalError"]
              /\ UNCHANGED ret
         ELSE /\ result' = [result EXCEPT ![w] = "ok"]
              /\ ret' = [ret EXCEPT ![w] = get_post_count(db, plat[w])]
    /\ pc' = [pc EXCEPT ![w] = "idle"]
    /\ UNCHANGED <<db, db0, lock, op, batch, plat, existing, overlap, closed,
                   afterClose, ncalls, nposts>>
    /\ UNCHANGED <<schedVars, collVars, extVars>>

\* ----------------------------------------------------------------- close
\* close(), lines 313-316: engine.dispose() closes the pooled connections;
\* the engine and the session factory stay bound, and the manager keeps no
\* record of having been closed
Close(w) ==
    /\ pc[w] = "idle"
    /\ ncalls < MaxCalls
    /\ closed' = TRUE
    /\ op' = [op EXCEPT ![w] = "close"]
    /\ result' = [result EXCEPT ![w] = "ok"]
    /\ ret' = [ret EXCEPT ![w] = None]
    /\ UNCHANGED overlap
    /\ afterClose' = [afterClose EXCEPT ![w] = closed]
    /\ ncalls' = ncalls + 1
    /\ UNCHANGED <<db, db0, lock, pc, batch, plat, existing, nposts>>
    /\ UNCHANGED <<schedVars, collVars, extVars>>

\* --------------------------------------------------------- create_tables
\* a create_tables that empties the table it finds
create_all_drops(exists, rows) == <<>>

\* Base.metadata.create_all(engine): the table is created when the store
\* does not have it (checkfirst); the rows of an existing table stay
create_all(exists, rows) == IF exists THEN rows ELSE <<>>

\* create_tables(platforms), lines 152-167: with separate_databases one
\* store per platform is created, each with the table, and the store of
\* self.engine is left alone; otherwise the table is created in the store
\* of self.engine
CreateTables(w) ==
    /\ pc[w] = "idle"
    /\ ncalls < MaxCalls
    /\ \E platforms \in SUBSET Platforms :
         IF separate_databases
         THEN /\ platform_tables' = platform_tables \cup platforms
              /\ platform_db' =
                    [p \in Platforms |->
                        IF p \in platforms
                        THEN create_all(p \in platform_tables, platform_db[p])
                        ELSE platform_db[p]]
              /\ UNCHANGED <<main_table, db>>
         ELSE /\ main_table' = TRUE
              /\ db' = create_all(main_table, db)
              /\ UNCHANGED <<platform_tables, platform_db>>
    /\ ncreates' = ncreates + 1
    /\ ncalls' = ncalls + 1
    /\ op' = [op EXCEPT ![w] = "create_tables"]
    /\ result' = [result EXCEPT ![w] = "ok"]
    /\ ret' = [ret EXCEPT ![w] = None]
    /\ afterClose' = [afterClose EXCEPT ![w] = closed]
    /\ UNCHANGED <<db0, lock, pc, batch, plat, existing, overlap, closed,
                   nposts>>
    /\ UNCHANGED <<separate_databases, stats_lock, spc, nstats>>
    /\ UNCHANGED oneShotVars
    /\ UNCHANGED <<schedVars, collVars>>

Next ==
    \E w \in Workers :
        \/ InsertPostsCall(w)
        \/ InsertPostsLookup(w)
        \/ InsertPostsCommit(w)
        \/ InsertPost(w)
        \/ GetPosts(w)
        \/ GetPostCountCall(w)
        \/ GetPostCount(w)
        \/ Close(w)

Spec == Init /\ [][Next]_vars

\* ------------------------------------------ _update_stats and its lock
MaxStats == 2

\* an _update_stats called from inside the locked section of insert_posts
UpdateStatsCallUnderLock(w) ==
    /\ pc[w] \in {"idle", "ip_locked"}
    /\ spc[w] = "out"
    /\ nstats < MaxStats
    /\ spc' = [spc EXCEPT ![w] = "wait"]
    /\ nstats' = nstats + 1
    /\ UNCHANGED <<separate_databases, main_table, platform_tables, platform_db,
                   ncreates, stats_lock>>
    /\ UNCHANGED oneShotVars
    /\ UNCHANGED <<storeVars, schedVars, collVars>>

\* _update_stats(platform, posts, status), tui.py line 110: a worker that
\* is in no storage call calls it and comes to `with self._stats_lock`
UpdateStatsCall(w) ==
    /\ pc[w] = "idle"
    /\ spc[w] = "out"
    /\ nstats < MaxStats
    /\ spc' = [spc EXCEPT ![w] = "wait"]
    /\ nstats' = nstats + 1
    /\ UNCHANGED <<separate_databases, main_table, platform_tables, platform_db,
                   ncreates, stats_lock>>
    /\ UNCHANGED oneShotVars
    /\ UNCHANGED <<storeVars, schedVars, collVars>>

\* tui.py line 113: the status lock is taken when nobody holds it
UpdateStatsEnter(w) ==
    /\ spc[w] = "wait"
    /\ stats_lock = NoWorker
    /\ stats_lock' = w
    /\ spc' = [spc EXCEPT ![w] = "in"]
    /\ UNCHANGED <<separate_databases, main_table, platform_tables, platform_db,
                   ncreates, nstats>>
    /\ UNCHANGED oneShotVars
    /\ UNCHANGED <<storeVars, schedVars, collVars>>

\* tui.py lines 115-136: with or without a get_post_count call
\* (should_update_db), which has returned or raised, the status is written
\* and the with block is left
UpdateStatsExit(w) ==
    /\ spc[w] \in {"in", "counting"}
    /\ pc[w] = "idle"
    /\ stats_lock' = NoWorker
    /\ spc' = [spc EXCEPT ![w] = "out"]
    /\ UNCHANGED <<separate_databases, main_table, platform_tables, platform_db,
                   ncreates, nstats>>
    /\ UNCHANGED oneShotVars
    /\ UNCHANGED <<storeVars, schedVars, collVars>>

\* the collection threads of the TUI as users of the two locks: a thread
\* calls insert_posts and _update_stats one after the other, and
\* get_post_count from inside _update_stats
LockNext ==
    \E w \in Workers :
        \/ spc[w] = "out" /\ InsertPostsCall(w)
        \/ spc[w] = "out" /\ InsertPostsLookup(w)
        \/ spc[w] = "out" /\ InsertPostsCommit(w)
        \/ UpdateStatsCall(w)
        \/ UpdateStatsEnter(w)
        \/ spc[w] = "in" /\ GetPostCountCall(w)
        \/ GetPostCount(w)
        \/ UpdateStatsExit(w)

\* the TUI on a new database file
LockInit == Init /\ db0 = <<>>

LockSpec == LockInit /\ [][LockNext]_vars

\* a manager constructed on a new or an existing file, with or without
\* separate_databases; create_tables has not been called
SchemaInit ==
    /\ separate_databases \in BOOLEAN
    /\ main_table \in BOOLEAN
    /\ db0 \in IF main_table THEN InitStores ELSE {<<>>}
    /\ db = db0
    /\ closed = FALSE
    /\ StoreIdle
    /\ platform_tables = {}
    /\ platform_db = [p \in Platforms |-> <<>>]
    /\ ncreates = 0
    /\ StatsIdle
    /\ OneShotIdle
    /\ SchedIdle
    /\ CollIdle

SchemaNext ==
    \/ Next
    \/ \E w \in Workers : CreateTables(w)

SchemaSpec == SchemaInit /\ [][SchemaNext]_vars

\* ============================================================ collectors
\* Items a client delivers in answer to one request
MaxItems == 2
\* the numbers of requests one collect_continuous call can make
RequestCounts == {0, 1, 2}

CollectorPlatforms == {"reddit", "bluesky", "mastodon"}

\* An upstream item is well-formed ("good"), well-formed except for a
\* timestamp that cannot be parsed ("badtime"), or malformed
ItemKinds == {"good", "badtime", "malformed"}

NoFault == -1

\* the object_id "unknown" (the ids of upstream items are their positions)
UnknownId == <<0, 0>>

\* The answers a client can give to request number r: the items (their
\* ids are their upstream positions) and, when the client raises, the
\* number of items it delivered before
Answers(r) ==
    UNION {
      {[items |-> [i \in 1..n |-> [id |-> <<r, i>>, kind |-> ks[i]]],
        fails |-> f] : ks \in [1..n -> ItemKinds], f \in {NoFault} \cup (0..n)}
      : n \in 0..MaxItems}

RequestLists ==
    UNION {{rs \in [1..n -> UNION {Answers(r) : r \in 1..n}] :
               \A r \in 1..n : rs[r] \in Answers(r)} : n \in RequestCounts}

\* what a conversion gives: a post, or an exception
Converted(platform, item, created_at) ==
    [raised |-> FALSE,
     post |-> [platform |-> platform, object_id |-> item.id,
               text |-> "text", created_at |-> created_at]]
ConversionRaised ==
    [raised |-> TRUE,
     post |-> [platform |-> None, object_id |-> None, text |-> None,
               created_at |-> None]]

\* RedditPost.from_praw_submission: no handler; datetime.fromtimestamp
\* raises on a created_utc it cannot convert
from_praw_submission(item) ==
    IF item.kind = "good" THEN Converted("reddit", item, "source")
    ELSE ConversionRaised

\* BlueskyPost.from_atproto_record: a timestamp that does not parse is
\* replaced by datetime.now(); any other exception gives the minimal post
\* with object_id "unknown"
from_atproto_record(item) ==
    CASE item.kind = "good" -> Converted("bluesky", item, "source")
      [] item.kind = "badtime" -> Converted("bluesky", item, "now")
      [] OTHER ->
           [raised |-> FALSE,
            post |-> [platform |-> "bluesky", object_id |-> UnknownId,
                      text |-> "", created_at |-> "now"]]

\* MastodonPost.from_mastodon_status: a timestamp that does not parse is
\* replaced by datetime.now(); other failures raise
from_mastodon_status(item) ==
    CASE item.kind = "good" -> Converted("mastodon", item, "source")
      [] item.kind = "badtime" -> Converted("mastodon", item, "now")
      [] OTHER -> ConversionRaised

from_item(platform, item) ==
    CASE platform = "reddit" -> from_praw_submission(item)
      [] platform = "bluesky" -> from_atproto_record(item)
      [] OTHER -> from_mastodon_status(item)

\* for item in items: try: posts.append(convert(item)) except: continue
ConvertItems(platform, items) ==
    LET rs == [i \in 1..Len(items) |-> from_item(platform, items[i])]
        kept == SelectSeq(rs, LAMBDA r : ~r.raised)
    IN  [i \in 1..Len(kept) |-> kept[i].post]

\* RedditCollector._collect_from_subreddit: the listing is fetched while
\* the for statement iterates, outside the per-item handler; a raise of
\* the client leaves the method, and the posts converted so far with it
collect_from_subreddit(answer) ==
    IF answer.fails # NoFault THEN [raised |-> TRUE, posts |-> <<>>]
    ELSE [raised |-> FALSE, posts |-> ConvertItems("reddit", answer.items)]

\* RedditCollector._search_by_keyword: the loop is inside the method's
\* handler; a raise of the client ends the loop, the posts stay
reddit_search_by_keyword(answer) ==
    [raised |-> FALSE,
     posts |-> ConvertItems("reddit",
                 IF answer.fails = NoFault THEN answer.items
                 ELSE SubSeq(answer.items, 1, answer.fails))]

\* BlueskyCollector._search_by_keyword, _search_by_hashtag and
\* _get_public_feed: the request is answered in full or raises; the
\* method's handler turns a raise into an empty list
bluesky_search(answer) ==
    [raised |-> FALSE,
     posts |-> IF answer.fails # NoFault THEN <<>>
               ELSE ConvertItems("bluesky", answer.items)]

\* MastodonCollector._search_by_hashtag and _get_public_timeline, likewise
mastodon_timeline(answer) ==
    [raised |-> FALSE,
     posts |-> IF answer.fails # NoFault THEN <<>>
               ELSE ConvertItems("mastodon", answer.items)]

\* a caller without the handler: the exception goes on
SwallowNothing(r) == r

\* try: posts.extend(method(...)) except Exception: continue
Swallow(r) == [raised |-> FALSE, posts |-> IF r.raised THEN <<>> ELSE r.posts]

\* the branches of collect_continuous of each collector
Paths(platform) ==
    CASE platform = "reddit" -> {"subreddits", "keywords"}
      [] platform = "bluesky" -> {"search", "feed"}
      [] OTHER -> {"timeline", "hashtags"}

\* the numbers of requests a branch makes: the public feed is one request,
\* a search branch is taken for a non-empty list of keywords or hashtags
PathAllows(path, n) ==
    CASE path = "feed" -> n = 1
      [] path \in {"keywords", "search", "hashtags"} -> n >= 1
      [] OTHER -> TRUE

\* the result of one request of collect_continuous, as the loop body of
\* the branch handles it
RequestResult(platform, path, answer) ==
    CASE platform = "reddit" /\ path = "subreddits" ->
             Swallow(collect_from_subreddit(answer))
      [] platform = "reddit" -> reddit_search_by_keyword(answer)
      [] platform = "bluesky" -> Swallow(bluesky_search(answer))
      [] OTHER -> Swallow(mastodon_timeline(answer))

RECURSIVE ExtendAll(_, _, _, _)
\* posts.extend(...) over the requests from number r on; a raise that
\* is not handled ends the call
ExtendAll(platform, path, answers, r) ==
    IF r > Len(answers) THEN NoResult
    ELSE LET one == RequestResult(platform, path, answers[r])
             rest == ExtendAll(platform, path, answers, r + 1)
         IN  IF one.raised THEN [raised |-> TRUE, posts |-> <<>>]
             ELSE [raised |-> rest.raised,
                   posts |-> IF rest.raised THEN <<>> ELSE one.posts \o rest.posts]

\* collect_continuous of the three collectors: a disabled collector and a
\* Mastodon collector without a connected client return the empty list
collect_continuous(platform, is_enabled, clients, path, answers) ==
    IF ~is_enabled THEN NoResult
    ELSE IF platform = "mastodon" /\ ~clients THEN NoResult
    ELSE ExtendAll(platform, path, answers, 1)

\* The credentials the configuration and the environment hold for a
\* platform: none, some the platform rejects, or valid ones
CredentialStates == {"missing", "rejected", "valid"}

\* __init__ of the three collectors: BaseCollector.__init__ sets enabled
\* from the configuration; _setup_reddit_client, _setup_client and
\* _setup_clients raise ValueError when the credentials are missing;
\* Bluesky also when the login fails; Mastodon skips an instance whose
\* verification fails and ends without a client; praw.Reddit makes no
\* request at construction
construct(platform, creds) ==
    CASE creds = "missing" ->
             [state |-> "failed", enabled |-> TRUE, clients |-> FALSE]
      [] creds = "rejected" /\ platform = "bluesky" ->
             [state |-> "failed", enabled |-> TRUE, clients |-> FALSE]
      [] creds = "rejected" /\ platform = "mastodon" ->
             [state |-> "constructed", enabled |-> TRUE, clients |-> FALSE]
      [] OTHER ->
             [state |-> "constructed", enabled |-> TRUE, clients |-> TRUE]

CollInit ==
    /\ db0 = <<>> /\ db = db0 /\ closed = FALSE /\ StoreIdle
    /\ ExtIdle
    /\ SchedIdle
    /\ cplatform \in CollectorPlatforms
    /\ ccredentials \in CredentialStates
    /\ cstate = "new"
    /\ cenabled = FALSE
    /\ cclients = FALSE
    /\ crequests = <<>>
    /\ cpath = "none"
    /\ cresult = NoResult
    /\ cconfig = DefaultConfig
    /\ ccall = NoCall

\* XCollector(config)
Construct ==
    /\ cstate = "new"
    /\ LET c == construct(cplatform, ccredentials)
       IN  /\ cstate' = c.state
           /\ cenabled' = c.enabled
           /\ cclients' = c.clients
    /\ UNCHANGED <<cplatform, ccredentials, crequests, cpath, cresult, cconfig,
                   ccall>>
    /\ UNCHANGED <<storeVars, schedVars, extVars>>

\* collector.collect_continuous(...), the first call on the collector; a
\* platform that rejects the credentials fails every request
CollectContinuous ==
    /\ cstate = "constructed"
    /\ cpath = "none"
    /\ \E path \in Paths(cplatform) : \E answers \in RequestLists :
         /\ PathAllows(path, Len(answers))
         /\ ccredentials = "rejected" =>
                \A r \in 1..Len(answers) : answers[r].fails = 0
         /\ cpath' = path
         /\ crequests' = answers
         /\ cresult' = collect_continuous(cplatform, cenabled, cclients,
                                          path, answers)
    /\ UNCHANGED <<cplatform, ccredentials, cstate, cenabled, cclients, cconfig,
                   ccall>>
    /\ UNCHANGED <<storeVars, schedVars, extVars>>

\* the kinds of value self.config holds for the required list field
\* (subreddits, instances) and for the numeric bound (max_posts,
\* max_posts_per_instance, max_posts_per_subreddit)
ListKinds == {"missing", "notlist", "empty", "ok"}

BoundKinds == {"absent", "positive", "zero", "negative", "notint"}

Configs == [list : ListKinds, bound : BoundKinds]

\* `not isinstance(max_posts, int) or max_posts <= 0` on
\* config.get(name, 1000)
BoundInvalid(config) == config.bound \in {"zero", "negative", "notint"}

\* the checks of the required field and of the list:
\* `field not in self.config`, `not isinstance(v, list) or len(v) == 0`
ListInvalid(config) == config.list \in {"missing", "notlist", "empty"}

\* validate_config of the three collectors; present: the credentials are
\* in the configuration or the environment when the method reads them
validate_config(platform, is_enabled, config, present) ==
    IF ~is_enabled THEN TRUE
    ELSE CASE platform = "reddit" ->
                  ~ListInvalid(config) /\ present
           [] platform = "bluesky" ->
                  present /\ ~BoundInvalid(config)
           [] OTHER ->
                  ~ListInvalid(config) /\ present /\ ~BoundInvalid(config)

\* test_connection of the three collectors: one request to the platform;
\* an exception is caught and gives False; the Mastodon collector
\* without a client returns False at once
test_connection(platform, clients, answered) ==
    IF platform = "mastodon" /\ ~clients THEN FALSE ELSE answered

\* collect of the three collectors: a disabled collector returns the empty
\* list, an invalid configuration raises ValueError, and the requests are
\* made in the loops collect_continuous has
collect(platform, is_enabled, clients, valid, path, answers) ==
    IF ~is_enabled THEN NoResult
    ELSE IF ~valid THEN [raised |-> TRUE, posts |-> <<>>]
    ELSE IF platform = "mastodon" /\ ~clients THEN NoResult
    ELSE ExtendAll(platform, path, answers, 1)

\* collector.validate_config(); the environment may have lost the
\* credentials since the construction
ValidateConfig ==
    /\ cstate = "constructed"
    /\ \E present \in BOOLEAN :
         ccall' = [name |-> IF present THEN "validate_config"
                            ELSE "validate_config without credentials",
                   returned |-> validate_config(cplatform, cenabled, cconfig,
                                                present)]
    /\ UNCHANGED <<cplatform, ccredentials, cstate, cenabled, cclients,
                   crequests, cpath, cresult, cconfig>>
    /\ UNCHANGED <<storeVars, schedVars, extVars>>

\* a test_connection that disables the collector when the request fails
TestConnectionDisables ==
    /\ cstate = "constructed"
    /\ \E answered \in BOOLEAN :
         /\ ccredentials = "rejected" => ~answered
         /\ ccall' = [name |-> "test_connection",
                      returned |-> test_connection(cplatform, cclients, answered)]
         /\ cenabled' = (cenabled /\ test_connection(cplatform, cclients, answered))
    /\ UNCHANGED <<cplatform, ccredentials, cstate, cclients,
                   crequests, cpath, cresult, cconfig>>
    /\ UNCHANGED <<storeVars, schedVars, extVars>>

\* collector.test_connection(); a platform that rejects the credentials
\* fails the request
TestConnection ==
    /\ cstate = "constructed"
    /\ \E answered \in BOOLEAN :
         /\ ccredentials = "rejected" => ~answered
         /\ ccall' = [name |-> "test_connection",
                      returned |-> test_connection(cplatform, cclients, answered)]
    /\ UNCHANGED <<cplatform, ccredentials, cstate, cenabled, cclients,
                   crequests, cpath, cresult, cconfig>>
    /\ UNCHANGED <<storeVars, schedVars, extVars>>

\* collector.collect(...), as the first call on the collector; of what it
\* returns the call record keeps whether it raised and the number of posts
Collect ==
    /\ cstate = "constructed"
    /\ cpath = "none" /\ ccall = NoCall
    /\ \E path \in Paths(cplatform) : \E answers \in RequestLists :
       \E present \in BOOLEAN :
         /\ PathAllows(path, Len(answers))
         /\ ccredentials = "rejected" =>
                \A r \in 1..Len(answers) : answers[r].fails = 0
         /\ LET out == collect(cplatform, cenabled, cclients,
                               validate_config(cplatform, cenabled, cconfig,
                                               present),
                               path, answers)
            IN  ccall' = [name |-> IF out.raised THEN "collect raised"
                                   ELSE "collect",
                          returned |-> Len(out.posts)]
    /\ UNCHANGED <<cplatform, ccredentials, cstate, cenabled, cclients,
                   crequests, cpath, cresult, cconfig>>
    /\ UNCHANGED <<storeVars, schedVars, extVars>>

CollNext ==
    \/ Construct
    \/ CollectContinuous
    \/ ValidateConfig
    \/ TestConnection
    \/ Collect

\* a collector constructed with any configuration, and its methods that
\* read the configuration
ConfigInit ==
    /\ db0 = <<>> /\ db = db0 /\ closed = FALSE /\ StoreIdle
    /\ ExtIdle
    /\ SchedIdle
    /\ cplatform \in CollectorPlatforms
    /\ ccredentials \in CredentialStates
    /\ cstate = "new"
    /\ cenabled = FALSE
    /\ cclients = FALSE
    /\ crequests = <<>>
    /\ cpath = "none"
    /\ cresult = NoResult
    /\ cconfig \in Configs
    /\ ccall = NoCall

ConfigNext ==
    \/ Construct
    \/ ValidateConfig
    \/ TestConnection

ConfigSpec == ConfigInit /\ [][ConfigNext]_vars

CollectSpec == CollInit /\ [][CollNext]_vars

\* ============================================================= scheduler
\* Two schedulers run the collection loop: SocFlowTUI (threads running
\* _collect_platform_sync, which insert their batches themselves) and
\* SocFlowApp.collect_continuously (threads running collect_from_platform,
\* which put their batches on posts_queue, and the main thread, which takes
\* them off and inserts them).  A collector is an argument of the loop: a
\* call of its collect_continuous returns a batch or raises.

\* Posts in one batch of collect_continuous
MaxBatch == 1
\* Batches waiting on posts_queue
MaxQueue == 2
\* Batches a thread puts on posts_queue
MaxPuts == 2
\* Cap of the posts counter of a platform's statistics
MaxCount == 2

\* the posts the collector of platform p delivers
CollectedPosts(p) == {MkPost(<<p, "a">>, "x", "s1")}

Batches(p) == UNION {[1..n -> CollectedPosts(p)] : n \in 0..MaxBatch}

\* what a call of collector.collect_continuous gives the loop
CollectOutcomes(p) ==
    {[raised |-> FALSE, posts |-> b] : b \in Batches(p)}
        \cup {[raised |-> TRUE, posts |-> <<>>]}

\* SQLiteManager.insert_posts as one call: the table afterwards and the
\* exception raised, "ok" when none (lookupFails: the query of the lookup
\* fails; limit: the statements the storage executes before it fails)
insert_posts(rows, posts, lookupFails, limit) ==
    IF posts = <<>> THEN [rows |-> rows, error |-> "ok"]
    ELSE IF lookupFails THEN [rows |-> rows, error |-> "OperationalError"]
    ELSE LET existing_posts == get_existing_posts(rows, posts)
             st == ProcessPosts(posts, 1,
                      [existing_posts |-> existing_posts, new_posts |-> <<>>,
                       updated_posts |-> <<>>])
             upd == ApplyUpdates(st.updated_posts, 1,
                      [objs |-> LoadedRows(existing_posts), posts |-> posts])
             writes == FlushWrites(st.new_posts, st.updated_posts, upd.objs)
         IN  IF NeedsCommit(st) THEN CommitOrRollback(rows, writes, limit)
             ELSE [rows |-> rows, error |-> "ok"]

RECURSIVE SumPosts(_, _)
\* sum(stats['posts'] for stats in self.collection_stats.values())
SumPosts(stats, ps) ==
    IF ps = {} THEN 0
    ELSE LET p == CHOOSE q \in ps : TRUE
         IN  stats[p].posts + SumPosts(stats, ps \ {p})

\* an update that writes the status into every platform's slot
update_stats_every_slot(stats, ldu, rows, p, n, status, size, elapsed, fault) ==
    LET new == [q \in Platforms |->
                   [status |-> status, size |-> size, posts |-> stats[q].posts]]
    IN  [collection_stats |-> new,
         last_db_update |-> ldu,
         total_posts |-> SumPosts(new, Platforms)]

\* SocFlowTUI._update_stats(platform, posts, status) with n = posts: the
\* database count is read on the first update of the platform and when
\* db_update_interval has elapsed; when get_post_count raises (fault) the
\* counter is increased by n instead
update_stats(stats, ldu, rows, p, n, status, size, elapsed, fault) ==
    LET should_update_db == p \notin ldu \/ elapsed
        count == IF ~should_update_db THEN stats[p].posts
                 ELSE IF fault THEN stats[p].posts + n
                 ELSE get_post_count(rows, p)
        new == [stats EXCEPT ![p] = [status |-> status, size |-> size,
                                     posts |-> count]]
    IN  [collection_stats |-> new,
         last_db_update |-> IF should_update_db /\ ~fault
                            THEN ldu \cup {p} ELSE ldu,
         total_posts |-> SumPosts(new, Platforms)]

\* the state after the construction of SocFlowApp / SocFlowTUI:
\* _setup_collectors keeps the collectors whose constructor returned
SchedInit ==
    /\ db0 = <<>> /\ db = db0 /\ closed = FALSE /\ StoreIdle
    /\ ExtIdle
    /\ CollIdle
    /\ mode \in {"tui", "app"}
    /\ credentials \in SUBSET Platforms
    /\ collectors =
          {p \in Platforms :
              construct(p, IF p \in credentials THEN "valid" ELSE "missing").state
                  = "constructed"}
    /\ enabled = [p \in Platforms |-> p \in collectors]
    /\ running = TRUE
    /\ collection_stats = [p \in Platforms |-> StartingStats]
    /\ last_db_update = {}
    /\ total_posts = 0
    /\ main = "init"
    /\ tpc = [p \in Platforms |-> "none"]
    /\ tposts = [p \in Platforms |-> <<>>]
    /\ sleep = [p \in Platforms |-> 0]
    /\ raised = [p \in Platforms |-> "none"]
    /\ forwarded = [p \in Platforms |-> 0]
    /\ posts_queue = <<>>
    /\ put_count = [p \in Platforms |-> 0]
    /\ get_count = [p \in Platforms |-> 0]
    /\ signalled = FALSE

\* the platforms a thread is started for: SocFlowTUI._start_collection_threads
\* takes every collector, collect_continuously those that are enabled
ThreadPlatforms == {p \in collectors : mode = "app" => enabled[p]}

\* SocFlowTUI.run up to the display loop / collect_continuously up to the
\* queue loop: the threads are started; without a thread the method
\* returns (run closes the application in its finally branch)
StartThreads ==
    /\ main = "init"
    /\ tpc' = [p \in Platforms |-> IF p \in ThreadPlatforms THEN "top" ELSE "none"]
    /\ main' = IF ThreadPlatforms = {} THEN "exited" ELSE "run"
    /\ closed' = (ThreadPlatforms = {} /\ mode = "tui")
    /\ UNCHANGED <<db, db0, lock, pc, op, batch, plat, existing, result, ret,
                   overlap, afterClose, ncalls, nposts>>
    /\ UNCHANGED <<mode, credentials, collectors, enabled, running,
                   collection_stats, last_db_update, total_posts, tposts,
                   sleep, raised, forwarded, posts_queue, put_count, get_count, signalled>>
    /\ UNCHANGED <<collVars, extVars>>

\* what a step of a collection thread leaves alone
ThreadFrame ==
    /\ UNCHANGED <<db0, lock, pc, op, batch, plat, existing, result, ret,
                   overlap, closed, afterClose, ncalls, nposts>>
    /\ UNCHANGED <<mode, credentials, collectors, enabled, running, main,
                   signalled>>
    /\ UNCHANGED <<collVars, extVars>>

\* an update that leaves total_posts as the sum before the update
SetStatsStaleTotal(p, n, status, size, elapsed, fault) ==
    LET u == update_stats(collection_stats, last_db_update, db, p, n,
                          status, size, elapsed, fault)
    IN  /\ (fault /\ (p \notin last_db_update \/ elapsed)) =>
               collection_stats[p].posts + n <= MaxCount
        /\ collection_stats' = u.collection_stats
        /\ last_db_update' = u.last_db_update
        /\ total_posts' = SumPosts(collection_stats, Platforms)

\* the statistics after _update_stats(p, n, status) with the choices made
SetStats(p, n, status, size, elapsed, fault) ==
    LET u == update_stats(collection_stats, last_db_update, db, p, n,
                          status, size, elapsed, fault)
    IN  /\ (fault /\ (p \notin last_db_update \/ elapsed)) =>
               collection_stats[p].posts + n <= MaxCount
        /\ collection_stats' = u.collection_stats
        /\ last_db_update' = u.last_db_update
        /\ total_posts' = u.total_posts

\* _collect_platform_sync, lines 426-434: the loop condition, the check of
\* is_enabled and the status update that follows it
TuiTop(p) ==
    /\ mode = "tui" /\ tpc[p] = "top"
    /\ IF ~running
       THEN /\ tpc' = [tpc EXCEPT ![p] = "exited"]
            /\ UNCHANGED <<collection_stats, last_db_update, total_posts,
                           sleep, raised, tposts, forwarded>>
       ELSE /\ \E elapsed, fault \in BOOLEAN :
                 SetStats(p, 0, IF enabled[p] THEN "Collecting" ELSE "Disabled",
                          0, elapsed, fault)
            /\ tpc' = [tpc EXCEPT ![p] = IF enabled[p] THEN "collect" ELSE "sleep"]
            /\ sleep' = [sleep EXCEPT ![p] = IF enabled[p] THEN @ ELSE 5]
            /\ raised' = [raised EXCEPT ![p] = "none"]
            /\ tposts' = [tposts EXCEPT ![p] = <<>>]
            /\ forwarded' = [forwarded EXCEPT ![p] = 0]
    /\ UNCHANGED <<db, posts_queue, put_count, get_count>>
    /\ ThreadFrame

\* lines 437-441: collect_continuous returns a batch, or raises, which
\* the inner handler turns into the empty list
TuiCollect(p) ==
    /\ mode = "tui" /\ tpc[p] = "collect"
    /\ \E out \in CollectOutcomes(p) :
         /\ tposts' = [tposts EXCEPT ![p] = out.posts]
         /\ raised' = [raised EXCEPT ![p] =
                          IF out.raised THEN "collect_continuous" ELSE "none"]
    /\ tpc' = [tpc EXCEPT ![p] = "got"]
    /\ UNCHANGED <<db, collection_stats, last_db_update, total_posts, sleep,
                   forwarded, posts_queue, put_count, get_count>>
    /\ ThreadFrame

\* lines 443-445 and 453-455: insert_posts(posts); when it raises, the
\* outer handler sets the status to Error and sleeps 10 seconds
TuiInsert(p) ==
    /\ mode = "tui" /\ tpc[p] = "got" /\ tposts[p] # <<>>
    /\ \E lookupFails \in BOOLEAN : \E limit \in 0..Len(tposts[p]) :
         LET out == insert_posts(db, tposts[p], lookupFails, limit)
         IN  /\ db' = out.rows
             /\ IF out.error = "ok"
                THEN /\ tpc' = [tpc EXCEPT ![p] = "inserted"]
                     /\ UNCHANGED <<collection_stats, last_db_update,
                                    total_posts, sleep, raised>>
                ELSE /\ \E elapsed, fault \in BOOLEAN :
                          SetStats(p, 0, "Error", 0, elapsed, fault)
                     /\ tpc' = [tpc EXCEPT ![p] = "sleep"]
                     /\ sleep' = [sleep EXCEPT ![p] = 10]
                     /\ raised' = [raised EXCEPT ![p] = "insert_posts"]
    /\ forwarded' = [forwarded EXCEPT ![p] = @ + 1]
    /\ UNCHANGED <<tposts, posts_queue, put_count, get_count>>
    /\ ThreadFrame

\* lines 446-451: the status becomes Active (with the size of the batch,
\* or "No new posts") and the thread sleeps 10 seconds
TuiActive(p) ==
    /\ mode = "tui"
    /\ \/ tpc[p] = "inserted"
       \/ tpc[p] = "got" /\ tposts[p] = <<>>
    /\ \E elapsed, fault \in BOOLEAN :
         SetStats(p, Len(tposts[p]), "Active", Len(tposts[p]), elapsed, fault)
    /\ tpc' = [tpc EXCEPT ![p] = "sleep"]
    /\ sleep' = [sleep EXCEPT ![p] = 10]
    /\ UNCHANGED <<db, tposts, raised, forwarded, posts_queue, put_count, get_count>>
    /\ ThreadFrame

\* a thread that ends with its sleep instead of going round
WakeEnds(p) ==
    /\ tpc[p] = "sleep"
    /\ tpc' = [tpc EXCEPT ![p] =
                 IF collection_stats[p].status = "Error" \/ raised[p] # "none"
                 THEN "exited" ELSE "top"]
    /\ sleep' = [sleep EXCEPT ![p] = 0]
    /\ UNCHANGED <<db, collection_stats, last_db_update, total_posts, tposts,
                   raised, forwarded, posts_queue, put_count, get_count>>
    /\ ThreadFrame

\* a thread that wakes up past the Collecting update, with no posts
WakeSkipsCollecting(p) ==
    /\ tpc[p] = "sleep"
    /\ tpc' = [tpc EXCEPT ![p] = IF mode = "tui" THEN "got" ELSE "top"]
    /\ sleep' = [sleep EXCEPT ![p] = 0]
    /\ tposts' = [tposts EXCEPT ![p] = IF mode = "tui" THEN <<>> ELSE @]
    /\ UNCHANGED <<db, collection_stats, last_db_update, total_posts,
                   raised, forwarded, posts_queue, put_count, get_count>>
    /\ ThreadFrame

\* time.sleep returns and the loop goes round
Wake(p) ==
    /\ tpc[p] = "sleep"
    /\ tpc' = [tpc EXCEPT ![p] = "top"]
    /\ sleep' = [sleep EXCEPT ![p] = 0]
    /\ UNCHANGED <<db, collection_stats, last_db_update, total_posts, tposts,
                   raised, forwarded, posts_queue, put_count, get_count>>
    /\ ThreadFrame

\* queue.Queue.put at the front of the queue
queue_put_front(q, item) == <<item>> \o q

\* queue.Queue.put: posts_queue is a FIFO queue without a size limit; an
\* item carries the platform, the batch and the number of the put
queue_put(q, item) == Append(q, item)

\* queue.Queue.get on a queue that is not empty
queue_get(q) == [item |-> Head(q), rest |-> Tail(q)]

\* collect_from_platform, lines 176-181: `while True` and the check of
\* is_enabled
AppTop(p) ==
    /\ mode = "app" /\ tpc[p] = "top"
    /\ tpc' = [tpc EXCEPT ![p] = IF enabled[p] THEN "collect" ELSE "sleep"]
    /\ sleep' = [sleep EXCEPT ![p] = IF enabled[p] THEN @ ELSE 5]
    /\ raised' = [raised EXCEPT ![p] = "none"]
    /\ tposts' = [tposts EXCEPT ![p] = <<>>]
    /\ UNCHANGED <<db, collection_stats, last_db_update, total_posts,
                   forwarded, posts_queue, put_count, get_count>>
    /\ ThreadFrame

\* lines 185-198: collect_continuous; a batch with posts is put on the
\* queue and the thread sleeps 5 seconds; when the call raises, the
\* handler sleeps 10 seconds
AppCollect(p) ==
    /\ mode = "app" /\ tpc[p] = "collect"
    /\ \E out \in CollectOutcomes(p) :
         /\ out.posts # <<>> =>
               (Len(posts_queue) < MaxQueue /\ put_count[p] < MaxPuts)
         /\ tposts' = [tposts EXCEPT ![p] = out.posts]
         /\ raised' = [raised EXCEPT ![p] =
                          IF out.raised THEN "collect_continuous" ELSE "none"]
         /\ posts_queue' = IF out.posts # <<>>
                           THEN queue_put(posts_queue,
                                          <<p, out.posts, put_count[p] + 1>>)
                           ELSE posts_queue
         /\ put_count' = [put_count EXCEPT ![p] =
                             IF out.posts # <<>> THEN @ + 1 ELSE @]
         /\ sleep' = [sleep EXCEPT ![p] = IF out.raised THEN 10 ELSE 5]
    /\ tpc' = [tpc EXCEPT ![p] = "sleep"]
    /\ UNCHANGED <<db, collection_stats, last_db_update, total_posts, forwarded,
                   get_count>>
    /\ ThreadFrame

\* what a step of the main thread leaves alone
MainFrame ==
    /\ UNCHANGED <<db0, lock, pc, op, batch, plat, existing, result, ret,
                   overlap, afterClose, ncalls, nposts>>
    /\ UNCHANGED <<mode, credentials, collectors, enabled, collection_stats,
                   last_db_update, total_posts, tposts, sleep, raised,
                   forwarded>>
    /\ UNCHANGED <<collVars, extVars>>

\* collect_continuously, lines 220-240: a batch is taken off the queue and
\* inserted; only queue.Empty is handled in the loop, so an exception of
\* insert_posts leaves collect_continuously and ends the main thread's loop
AppConsume ==
    /\ mode = "app" /\ main = "run" /\ posts_queue # <<>>
    /\ LET platform == queue_get(posts_queue).item[1]
           posts == queue_get(posts_queue).item[2]
       IN  \E lookupFails \in BOOLEAN : \E limit \in 0..Len(posts) :
             LET out == insert_posts(db, posts, lookupFails, limit)
             IN  /\ db' = out.rows
                 /\ main' = IF out.error = "ok" THEN "run" ELSE "crashed"
    /\ posts_queue' = queue_get(posts_queue).rest
    /\ get_count' = [get_count EXCEPT ![queue_get(posts_queue).item[1]] = @ + 1]
    /\ UNCHANGED <<running, tpc, closed, signalled, put_count>>
    /\ MainFrame

\* SocFlowTUI._signal_handler: running = False, app.close(), sys.exit(0);
\* SystemExit leaves run through its finally branch
TuiSignal ==
    /\ mode = "tui" /\ main = "run"
    /\ running' = FALSE
    /\ closed' = TRUE
    /\ signalled' = TRUE
    /\ main' = "exiting"
    /\ UNCHANGED <<db, tpc, posts_queue, put_count, get_count>>
    /\ MainFrame

\* the interpreter exits: the collection threads are daemon threads and
\* end with it wherever they are
TuiExit ==
    /\ mode = "tui" /\ main = "exiting"
    /\ main' = "exited"
    /\ tpc' = [p \in Platforms |->
                 IF tpc[p] \in {"none", "exited"} THEN tpc[p] ELSE "killed"]
    /\ UNCHANGED <<db, running, closed, posts_queue, put_count, get_count, signalled>>
    /\ MainFrame

\* signal_handler of collect_continuously: close() and exit(0); SystemExit
\* ends the main thread; the collection threads are not daemon threads
\* and their loop has no condition, so they go on
AppSignal ==
    /\ mode = "app" /\ main \in {"run", "crashed"}
    /\ ~signalled
    /\ closed' = TRUE
    /\ signalled' = TRUE
    /\ main' = "exited"
    /\ UNCHANGED <<db, running, tpc, posts_queue, put_count, get_count>>
    /\ MainFrame

ThreadNext(p) ==
    \/ TuiTop(p)
    \/ TuiCollect(p)
    \/ TuiInsert(p)
    \/ TuiActive(p)
    \/ Wake(p)
    \/ AppTop(p)
    \/ AppCollect(p)

SchedNext ==
    \/ StartThreads
    \/ \E p \in Platforms : ThreadNext(p)
    \/ AppConsume
    \/ TuiSignal
    \/ TuiExit
    \/ AppSignal

SchedSpec == SchedInit /\ [][SchedNext]_vars

\* The threads are scheduled by the operating system and a sleep ends: a
\* thread that can take a step takes one; so does the main thread's queue
\* loop.  The signal is the environment's and has no fairness.
SchedFairness ==
    /\ \A p \in Platforms : WF_vars(ThreadNext(p))
    /\ WF_vars(StartThreads)
    /\ WF_vars(AppConsume)
    /\ WF_vars(TuiExit)

SchedFairSpec == SchedInit /\ [][SchedNext]_vars /\ SchedFairness

\* the sleep at the end of a cycle without an error: 10 seconds in
\* _collect_platform_sync, 5 seconds in collect_from_platform
NormalInterval(m) == IF m = "tui" THEN 10 ELSE 5

\* ------------------------------------------------ the one-shot collection
\* Platforms collect_data is asked for
MaxList == 2

\* the names a caller can pass: the platforms and a name no collector has
PlatformNames == Platforms \cup {"twitter"}

PlatformLists == UNION {[1..n -> PlatformNames] : n \in 0..MaxList}

\* list(self.collectors.keys()): the collectors in the order
\* _setup_collectors creates them
CollectorKeys ==
    SelectSeq(<<"reddit", "bluesky">>, LAMBDA p : p \in collectors)

\* the state after the construction of SocFlowApp, on a new or an existing
\* database file
OneShotInit ==
    /\ db0 \in InitStores /\ db = db0 /\ closed = FALSE /\ StoreIdle
    /\ ExtIdle
    /\ CollIdle
    /\ mode = "oneshot"
    /\ credentials \in SUBSET Platforms
    /\ collectors =
          {p \in Platforms :
              construct(p, IF p \in credentials THEN "valid" ELSE "missing").state
                  = "constructed"}
    /\ enabled = [p \in Platforms |-> p \in collectors]
    /\ running = FALSE
    /\ collection_stats = [p \in Platforms |-> StartingStats]
    /\ last_db_update = {}
    /\ total_posts = 0
    /\ main = "init"
    /\ tpc = [p \in Platforms |-> "none"]
    /\ tposts = [p \in Platforms |-> <<>>]
    /\ sleep = [p \in Platforms |-> 0]
    /\ raised = [p \in Platforms |-> "none"]
    /\ forwarded = [p \in Platforms |-> 0]
    /\ posts_queue = <<>>
    /\ put_count = [p \in Platforms |-> 0]
    /\ get_count = [p \in Platforms |-> 0]
    /\ signalled = FALSE

\* what a step of collect_data leaves alone
OneShotFrame ==
    /\ UNCHANGED <<db0, lock, pc, op, batch, plat, existing, result, ret,
                   overlap, closed, afterClose, ncalls, nposts>>
    /\ UNCHANGED <<mode, credentials, collectors, enabled, running,
                   collection_stats, last_db_update, total_posts, tpc, sleep,
                   forwarded, posts_queue, put_count, get_count, signalled>>
    /\ UNCHANGED <<separate_databases, main_table, platform_tables, platform_db,
                   ncreates, stats_lock, spc, nstats>>
    /\ UNCHANGED collVars

\* collect_data(platforms), lines 94-101: None stands for all collectors;
\* without any collector the call returns the empty dictionary
CollectDataCall ==
    /\ mode = "oneshot" /\ main = "init"
    /\ \E list \in PlatformLists \cup {CollectorKeys} :
         /\ requested' = list
         /\ todo' = IF collectors = {} THEN <<>> ELSE list
    /\ results' = <<>>
    /\ main' = IF collectors = {} THEN "returned" ELSE "loop"
    /\ UNCHANGED <<db, tposts, raised>>
    /\ OneShotFrame

\* results[platform] = n
SetResult(res, platform, n) ==
    [p \in DOMAIN res \cup {platform} |-> IF p = platform THEN n ELSE res[p]]

\* a pass of the loop that ends collect_data when a platform raises
CollectDataPassAborts ==
    /\ mode = "oneshot" /\ main = "loop" /\ todo # <<>>
    /\ LET platform == Head(todo)
       IN  IF platform \notin collectors \/ ~enabled[platform]
           THEN /\ todo' = Tail(todo)
                /\ UNCHANGED <<db, tposts, raised, results>>
           ELSE \E out \in CollectOutcomes(platform) :
                \E lookupFails \in BOOLEAN : \E limit \in 0..Len(out.posts) :
                  LET ins == insert_posts(db, out.posts, lookupFails, limit)
                      error == IF out.raised THEN "collect"
                               ELSE IF ins.error # "ok" THEN "insert_posts"
                               ELSE "none"
                  IN  /\ tposts' = [tposts EXCEPT ![platform] = out.posts]
                      /\ raised' = [raised EXCEPT ![platform] = error]
                      /\ db' = IF out.raised THEN db ELSE ins.rows
                      /\ results' = SetResult(results, platform,
                                        IF error = "none" THEN Len(out.posts) ELSE 0)
                      /\ todo' = IF error = "none" THEN Tail(todo) ELSE <<>>
    /\ UNCHANGED <<main, requested>>
    /\ OneShotFrame

\* one pass of the loop, lines 103-127: a platform without a collector or
\* with a disabled one is skipped; otherwise collector.collect is called,
\* a non-empty list is handed to insert_posts and counted, and an exception
\* of either call leaves the entry 0
CollectDataPass ==
    /\ mode = "oneshot" /\ main = "loop" /\ todo # <<>>
    /\ LET platform == Head(todo)
       IN  IF platform \notin collectors \/ ~enabled[platform]
           THEN /\ UNCHANGED <<db, tposts, raised, results>>
           ELSE \E out \in CollectOutcomes(platform) :
                \E lookupFails \in BOOLEAN : \E limit \in 0..Len(out.posts) :
                  LET ins == insert_posts(db, out.posts, lookupFails, limit)
                      error == IF out.raised THEN "collect"
                               ELSE IF ins.error # "ok" THEN "insert_posts"
                               ELSE "none"
                  IN  /\ tposts' = [tposts EXCEPT ![platform] = out.posts]
                      /\ raised' = [raised EXCEPT ![platform] = error]
                      /\ db' = IF out.raised THEN db ELSE ins.rows
                      /\ results' = SetResult(results, platform,
                                        IF error = "none" THEN Len(out.posts) ELSE 0)
    /\ todo' = Tail(todo)
    /\ UNCHANGED <<main, requested>>
    /\ OneShotFrame

\* line 129: return results
CollectDataReturn ==
    /\ mode = "oneshot" /\ main = "loop" /\ todo = <<>>
    /\ main' = "returned"
    /\ UNCHANGED <<db, tposts, raised, requested, todo, results>>
    /\ OneShotFrame

OneShotNext ==
    \/ CollectDataCall
    \/ CollectDataPass
    \/ CollectDataReturn

OneShotSpec == OneShotInit /\ [][OneShotNext]_vars

\* ================================================================ claims
\* the step that ends worker w's insert_posts call after the lookup
CommitStep(w) == pc[w] = "ip_locked" /\ pc'[w] = "idle"

\* the stored row a post would produce: the post is equal to the row
EqualToStored(rows, post) ==
    \E j \in RowsWithKey(rows, PostKey(post)) :
        rows[j] = [post_to_db_row(post) EXCEPT !.id = j]

\* C1: whatever insert_post and insert_posts calls the workers have made,
\* in whatever interleaving, no two stored rows have the same
\* (platform, object_id).
C1_UniqueKeys ==
    \A i, j \in 1..Len(db) : i # j => PostKey(db[i]) # PostKey(db[j])

\* C1 witness: an insert_posts call lost the race for a key to an
\* insert_post call of the other worker and was refused by the constraint.
C1_Witness ==
    \E w, v \in Workers :
        /\ w # v
        /\ op[w] = "insert_posts" /\ pc[w] = "idle"
        /\ result[w] = "IntegrityError"
        /\ op[v] = "insert_post" /\ result[v] = "ok"
        /\ \E i \in 1..Len(batch[w]) : PostKey(batch[w][i]) = PostKey(batch[v][1])

\* C2 (the claim as stated): when insert_posts([p2]) commits and the key of
\* p2 is stored with another text, the row afterwards carries p2's text,
\* metrics and platform-specific attributes (title and the rest of the
\* attribute bag), and keeps the created_at and object_id it had.
C2_EditTakesAllOfP2 ==
    [][\A w \in Workers :
         (CommitStep(w) /\ result'[w] = "ok" /\ Len(batch[w]) = 1) =>
            LET p2 == batch[w][1]
            IN  \A j \in RowsWithKey(db, PostKey(p2)) :
                   db[j].text # p2.text =>
                      /\ RowsWithKey(db', PostKey(p2)) = {j}
                      /\ db'[j].text = p2.text
                      /\ db'[j].metrics = JsonDumps(p2.metrics)
                      /\ db'[j].title = post_to_db_row(p2).title
                      /\ db'[j].attrs = p2.attrs
                      /\ db'[j].created_at = db[j].created_at
                      /\ db'[j].object_id = db[j].object_id]_vars

\* C3: when every post of an insert_posts batch is equal to a stored row,
\* the call flushes no INSERT and no UPDATE, leaves the table (and so
\* get_post_count) as it was and returns without error.
C3_ReinsertIsNoOp ==
    [][\A w \in Workers :
         (CommitStep(w)
            /\ \A i \in 1..Len(batch[w]) : EqualToStored(db, batch[w][i])) =>
               /\ ~NeedsCommit(Processed(w))
               /\ db' = db
               /\ get_post_count(db', None) = get_post_count(db, None)
               /\ result'[w] = "ok"]_vars

\* C3 witness: the first worker has re-inserted stored posts twice (both
\* calls of the run are its insert_posts calls) and the table is the
\* initial one.
C3_Witness ==
    /\ ncalls = 2 /\ nposts >= 2
    /\ op["w1"] = "insert_posts" /\ pc["w1"] = "idle" /\ result["w1"] = "ok"
    /\ op["w2"] = "none"
    /\ batch["w1"] # <<>>
    /\ \A i \in 1..Len(batch["w1"]) : EqualToStored(db, batch["w1"][i])
    /\ db = db0

Max(S) == CHOOSE m \in S : \A n \in S : m >= n

\* positions of the posts of a batch with the key k
Occurrences(posts, k) == {i \in 1..Len(posts) : PostKey(posts[i]) = k}

\* C4 (the claim as stated): when a committed batch holds a key several
\* times, the one row stored for the key afterwards carries the text of
\* the last occurrence, whether or not the key was stored before.
C4_LastWriteWins ==
    [][\A w \in Workers :
         (CommitStep(w) /\ result'[w] = "ok") =>
            \A i \in 1..Len(batch[w]) :
               LET k == PostKey(batch[w][i])
                   last == Max(Occurrences(batch[w], k))
               IN  Cardinality(Occurrences(batch[w], k)) >= 2 =>
                      \E r \in 1..Len(db') :
                         /\ RowsWithKey(db', k) = {r}
                         /\ db'[r].text = batch[w][last].text]_vars

\* the step that ends worker w's insert_posts call, at the lookup or after
EndStep(w) == pc[w] \in {"ip_wait", "ip_locked"} /\ pc'[w] = "idle"

\* C5: an insert_posts call leaves the table in one of two ways: with an
\* error surfaced and the table exactly as it was, or without error and
\* with every INSERT and UPDATE of the batch applied; never with a part.
C5_AllOrNothing ==
    [][\A w \in Workers :
         EndStep(w) =>
            \/ /\ result'[w] # "ok"
               /\ db' = db
            \/ /\ result'[w] = "ok"
               /\ pc[w] = "ip_locked"
               /\ LET full == Execute(db, WritesOf(w), 1, Len(WritesOf(w)))
                  IN  full.error = "ok" /\ db' = full.rows]_vars

\* C5 witness: the only call of the run, an insert_posts batch of three
\* posts with new keys, has failed with a storage error and the table is
\* the initial one.
C5_Witness ==
    \E w \in Workers :
        /\ ncalls = 1
        /\ op[w] = "insert_posts" /\ pc[w] = "idle"
        /\ result[w] = "OperationalError"
        /\ Len(batch[w]) = 3
        /\ \A i \in 1..3 : RowsWithKey(db0, PostKey(batch[w][i])) = {}
        /\ db = db0

\* posts of a batch whose key is stored with the same / with another text
IdenticalIn(rows, posts) ==
    {i \in 1..Len(posts) :
       \E j \in RowsWithKey(rows, PostKey(posts[i])) : rows[j].text = posts[i].text}
EditedIn(rows, posts) ==
    {i \in 1..Len(posts) :
       \E j \in RowsWithKey(rows, PostKey(posts[i])) : rows[j].text # posts[i].text}
DistinctKeys(posts) ==
    \A i, j \in 1..Len(posts) : i # j => PostKey(posts[i]) # PostKey(posts[j])

\* C6: a committed batch of n posts with pairwise distinct keys, i of them
\* stored with the same text and e stored with another text, adds n-i-e
\* rows, changes exactly the e rows of the edited posts and leaves the
\* rows of the i identical posts as they were.
C6_BatchCounts ==
    [][\A w \in Workers :
         (CommitStep(w) /\ result'[w] = "ok" /\ DistinctKeys(batch[w])) =>
            LET n == Len(batch[w])
                i == Cardinality(IdenticalIn(db, batch[w]))
                e == Cardinality(EditedIn(db, batch[w]))
                changed == {j \in 1..Len(db) : db'[j] # db[j]}
            IN  /\ Len(db') = Len(db) + n - i - e
                /\ Cardinality(changed) = e
                /\ changed = UNION {RowsWithKey(db, PostKey(batch[w][q])) :
                                      q \in EditedIn(db, batch[w])}]_vars

\* C6 witness: one batch of three posts has met a table of two rows: one
\* post was identical, one edited, one new.
C6_Witness ==
    \E w \in Workers :
        /\ ncalls = 1
        /\ op[w] = "insert_posts" /\ pc[w] = "idle" /\ result[w] = "ok"
        /\ Len(batch[w]) = 3 /\ DistinctKeys(batch[w])
        /\ Len(db0) = 2 /\ Len(db) = 3
        /\ Cardinality({j \in 1..2 : db[j] # db0[j]}) = 1
        /\ Cardinality(IdenticalIn(db0, batch[w])) = 1

\* every post of a batch is of the platform p
AllOfPlatform(posts, p) == \A i \in 1..Len(posts) : posts[i].platform = p

\* every post of a batch has a stored row carrying its text
AllStored(rows, posts) ==
    \A i \in 1..Len(posts) :
       \E j \in RowsWithKey(rows, PostKey(posts[i])) : rows[j].text = posts[i].text

\* the two calls of the run are insert_posts calls of the two workers, with
\* non-empty batches of distinct keys for two different platforms, on a
\* table that was empty
TwoPlatformBatches(w, v) ==
    /\ w # v /\ ncalls = 2 /\ db0 = <<>>
    /\ op[w] = "insert_posts" /\ op[v] = "insert_posts"
    /\ batch[w] # <<>> /\ batch[v] # <<>>
    /\ DistinctKeys(batch[w]) /\ DistinctKeys(batch[v])
    /\ \E p, q \in Platforms :
          p # q /\ AllOfPlatform(batch[w], p) /\ AllOfPlatform(batch[v], q)

\* C7: two insert_posts calls with batches for different platforms never
\* make each other fail, in any interleaving: none of them is refused by
\* the unique constraint, and when both have returned without a storage
\* fault, get_post_count() is the sum of the batch sizes and every post of
\* both batches is stored.
C7_BothBatchesCommit ==
    \A w, v \in Workers :
        TwoPlatformBatches(w, v) =>
            /\ result[w] # "IntegrityError"
            /\ (pc[w] = "idle" /\ pc[v] = "idle"
                  /\ result[w] = "ok" /\ result[v] = "ok") =>
                   /\ get_post_count(db, None) = Len(batch[w]) + Len(batch[v])
                   /\ AllStored(db, batch[w]) /\ AllStored(db, batch[v])

\* C7 witness: the second call began while the first was in progress, both
\* have returned, and the three posts of the two batches are stored.
C7_Witness ==
    \E w, v \in Workers :
        /\ TwoPlatformBatches(w, v) /\ overlap
        /\ pc[w] = "idle" /\ pc[v] = "idle"
        /\ result[w] = "ok" /\ result[v] = "ok"
        /\ Len(batch[w]) = 2 /\ Len(batch[v]) = 1
        /\ get_post_count(db, None) = 3

\* the two calls of the run are insert_posts calls of the two workers
\* whose batches share a key that was not stored
SameNewKeyBatches(w, v) ==
    /\ w # v /\ ncalls = 2
    /\ op[w] = "insert_posts" /\ op[v] = "insert_posts"
    /\ \E i \in 1..Len(batch[w]) : \E j \in 1..Len(batch[v]) :
          /\ PostKey(batch[w][i]) = PostKey(batch[v][j])
          /\ RowsWithKey(db0, PostKey(batch[w][i])) = {}

\* C8: while a worker is between the lookup and the write of insert_posts,
\* no other worker does the lookup or the write of insert_posts or the
\* count of get_post_count; and of two insert_posts calls whose batches
\* share a key that was not stored, none is refused by the unique
\* constraint and the key never has more than one row.
C8_LookupAndWriteExclusive ==
    [][\A w, v \in Workers :
         /\ (w # v /\ pc[w] = "ip_locked" /\ pc'[w] = "ip_locked") =>
                /\ pc'[v] # "ip_locked"
                /\ pc[v] \in {"ip_wait", "gc_wait"} => pc'[v] = pc[v]
         /\ SameNewKeyBatches(w, v)' =>
                /\ result'[w] # "IntegrityError"
                /\ \A k \in Keys : Cardinality(RowsWithKey(db', k)) <= 1]_vars

\* C8 witness: the second of two overlapping insert_posts calls sharing a
\* new key has returned after the first; both returned without error and
\* the key has one row.
C8_Witness ==
    \E w, v \in Workers :
        /\ SameNewKeyBatches(w, v) /\ overlap
        /\ pc[w] = "idle" /\ pc[v] = "idle"
        /\ result[w] = "ok" /\ result[v] = "ok"
        /\ \E i \in 1..Len(batch[w]) :
              /\ RowsWithKey(db0, PostKey(batch[w][i])) = {}
              /\ Occurrences(batch[v], PostKey(batch[w][i])) # {}
              /\ Cardinality(RowsWithKey(db, PostKey(batch[w][i]))) = 1

\* the step is a call of get_posts by worker w
GetPostsStep(w) ==
    pc[w] = "idle" /\ ncalls' = ncalls + 1 /\ op'[w] = "get_posts"

\* C9 (the claim as stated): when A was stored with text "x" by an earlier
\* cycle, the cycle that returned [A(text="y")] has been inserted and the
\* row of A carries "y", a get_posts call for A's platform returns without
\* error exactly one record for A, and its text is "y".
C9_GetPostsShowsEdit ==
    [][\A w, v \in Workers :
         (/\ GetPostsStep(w)
          /\ op[v] = "insert_posts" /\ pc[v] = "idle" /\ result[v] = "ok"
          /\ Len(batch[v]) = 1 /\ batch[v][1].text = "y"
          /\ plat'[w] = batch[v][1].platform
          /\ \E j \in RowsWithKey(db0, PostKey(batch[v][1])) : db0[j].text = "x"
          /\ \E j \in RowsWithKey(db, PostKey(batch[v][1])) : db[j].text = "y") =>
             /\ result'[w] = "ok"
             /\ \E i \in 1..Len(ret'[w]) :
                   /\ ret'[w][i].object_id = batch[v][1].object_id
                   /\ ret'[w][i].text = "y"
                   /\ \A q \in 1..Len(ret'[w]) :
                         ret'[w][q].object_id = batch[v][1].object_id => q = i]_vars

SinkOperations == {"insert_posts", "insert_post", "get_posts", "get_post_count"}

\* the step is one of worker w's current call
OwnStep(w) ==
    \/ pc'[w] # pc[w]
    \/ pc[w] = "idle" /\ ncalls' = ncalls + 1
         /\ \A v \in Workers \ {w} :
               op'[v] = op[v] /\ batch'[v] = batch[v] /\ result'[v] = result[v]

\* C10 (the claim as stated): a call of insert_posts (with posts),
\* insert_post, get_posts or get_post_count that began after close()
\* returned ends with the "closed" error (unless the storage itself fails
\* under it), and no step of it changes a stored row.
C10_ClosedSinkRefuses ==
    [][\A w \in Workers :
         (afterClose'[w] /\ op'[w] \in SinkOperations /\ OwnStep(w)
            /\ (op'[w] = "insert_posts" => batch'[w] # <<>>)
            /\ result'[w] # "OperationalError") =>
            /\ db' = db
            /\ pc'[w] = "idle" => result'[w] = "ClosedError"]_vars

\* ----------------------------------------------------- claims: collectors
\* a collect_continuous call has been made on the constructed collector
\* (a Mastodon collector with a connected client)
CallMade ==
    /\ cstate = "constructed" /\ cpath # "none"
    /\ cplatform = "mastodon" => cclients

\* the client raised in one of the requests of the call
ClientFailed == \E r \in 1..Len(crequests) : crequests[r].fails # NoFault

\* the construction of the platform's client fails with a credential error
CredentialError ==
    \/ ccredentials = "missing"
    \/ ccredentials = "rejected" /\ cplatform # "reddit"

\* C16 (the claim as stated): when the construction of the client failed
\* with a credential error, the constructor has returned a collector (the
\* failure did not leave it) and the collector's is_enabled() is false.
C16_CredentialErrorDisables ==
    (cstate # "new" /\ CredentialError) =>
        (cstate = "constructed" /\ ~cenabled)

\* C17 (the claim as stated): a collect_continuous call in which the
\* client raised has returned the empty sequence, has not raised, and
\* is_enabled() is true afterwards.
C17_ClientFaultGivesEmpty ==
    (CallMade /\ ClientFailed) =>
        (~cresult.raised /\ cresult.posts = <<>> /\ cenabled)

\* the object_ids of the posts of a batch
IdsOf(batch_) == {batch_[j].object_id : j \in 1..Len(batch_)}

\* C17 (amended): a collect_continuous call in which the client raised has
\* not raised and is_enabled() is true afterwards; the sequence it
\* returned holds the post of every well-formed item of the requests that
\* did not fail, of a request that failed only posts of items delivered
\* before the failure of a Reddit keyword search, and nothing when every
\* request failed before delivering an item.
C17_ClientFaultKeepsTheRest ==
    (CallMade /\ ClientFailed) =>
        /\ ~cresult.raised
        /\ cenabled
        /\ \A r \in 1..Len(crequests) : \A i \in 1..Len(crequests[r].items) :
             /\ (crequests[r].fails = NoFault
                   /\ crequests[r].items[i].kind = "good") =>
                    <<r, i>> \in IdsOf(cresult.posts)
             /\ (crequests[r].fails # NoFault
                   /\ <<r, i>> \in IdsOf(cresult.posts)) =>
                    /\ cplatform = "reddit" /\ cpath = "keywords"
                    /\ i <= crequests[r].fails
        /\ (\A r \in 1..Len(crequests) : crequests[r].fails = 0) =>
               cresult.posts = <<>>

\* C17 witness: the second request of a call failed and the batch holds
\* the post of the first request.
C17_Witness ==
    /\ CallMade /\ Len(crequests) = 2
    /\ crequests[1].fails = NoFault /\ crequests[2].fails # NoFault
    /\ Len(crequests[2].items) > 0
    /\ ~cresult.raised /\ cenabled
    /\ IdsOf(cresult.posts) = {<<1, 1>>}

RECURSIVE WellFormedIds(_, _)
\* the ids of the well-formed items of the answers from request r on, in
\* upstream order
WellFormedIds(answers, r) ==
    IF r > Len(answers) THEN <<>>
    ELSE LET good == SelectSeq(answers[r].items, LAMBDA it : it.kind = "good")
         IN  [i \in 1..Len(good) |-> good[i].id] \o WellFormedIds(answers, r + 1)

\* C18 (the claim as stated): when no request failed and every item is
\* either well-formed or malformed, the batch holds exactly the posts of
\* the well-formed items, in upstream order.
C18_MalformedItemsSkipped ==
    (/\ CallMade /\ ~ClientFailed
     /\ \A r \in 1..Len(crequests) : \A i \in 1..Len(crequests[r].items) :
           crequests[r].items[i].kind \in {"good", "malformed"}) =>
        /\ ~cresult.raised
        /\ [j \in 1..Len(cresult.posts) |-> cresult.posts[j].object_id]
               = WellFormedIds(crequests, 1)

\* C19 (the claim as stated): when no request failed, every item whose
\* timestamp cannot be parsed has a post in the batch, with created_at set
\* to the collection time.
C19_BadTimestampGetsCollectionTime ==
    (CallMade /\ ~ClientFailed) =>
        /\ ~cresult.raised
        /\ \A r \in 1..Len(crequests) : \A i \in 1..Len(crequests[r].items) :
             crequests[r].items[i].kind = "badtime" =>
                \E j \in 1..Len(cresult.posts) :
                   /\ cresult.posts[j].object_id = <<r, i>>
                   /\ cresult.posts[j].created_at = "now"

\* an exception of insert_posts reached the scheduler in this step
InsertRaisedNow ==
    \/ \E p \in Platforms : raised[p] # "insert_posts" /\ raised'[p] = "insert_posts"
    \/ main = "run" /\ main' = "crashed"

\* C11: when insert_posts raises during continuous collection the failed
\* batch is rolled back and the scheduler keeps polling: the thread that
\* forwards batches to insert_posts goes on and the process does not stop
C11_InsertFailureKeepsPolling ==
    [][InsertRaisedNow =>
          /\ db' = db
          /\ main' = "run"
          /\ \A p \in Platforms : tpc[p] # "none" => tpc'[p] \in {"sleep", "top"}]_vars

\* C12: a worker that sleeps after collect_continuous raised in its cycle
\* has the status Error and sleeps longer than its normal interval
C12_CollectErrorBacksOff ==
    \A p \in Platforms :
        (tpc[p] = "sleep" /\ raised[p] = "collect_continuous") =>
            /\ collection_stats[p].status = "Error"
            /\ sleep[p] > NormalInterval(mode)

\* the worker of p sleeps after an error or as disabled
SleepsAfterError(p) ==
    /\ tpc[p] = "sleep"
    /\ \/ collection_stats[p].status \in {"Error", "Disabled"}
       \/ raised[p] # "none"

\* C13: while the scheduler runs no worker state is terminal: a worker
\* that sleeps with the status Error or Disabled, or after an exception in
\* its cycle, eventually starts another iteration and, being enabled,
\* calls collect_continuous again (or the shutdown signal has come)
C13_ErrorIsNotTerminal ==
    \A p \in Platforms :
        SleepsAfterError(p) ~> (tpc[p] = "collect" \/ signalled)

\* a worker is back at the head of its loop after a cycle that ended in
\* the status Error
C13_Witness ==
    \E p \in Platforms :
        /\ tpc[p] = "top" /\ running /\ ~signalled
        /\ collection_stats[p].status = "Error"
        /\ raised[p] = "insert_posts"

\* C14: a batch of N > 0 posts is forwarded to insert_posts exactly once
\* and the status Active with size N comes only after insert_posts
\* returned: no batch is forwarded twice, none waits for a forwarder that
\* has ended while the scheduler runs, and Active with N > 0 implies a
\* successful insert_posts in that cycle
C14_BatchForwardedOnce ==
    /\ \A p \in Platforms :
          /\ forwarded[p] <= 1
          /\ (collection_stats[p].status = "Active"
                 /\ collection_stats[p].size > 0) =>
                (forwarded[p] = 1 /\ raised[p] # "insert_posts")
    /\ (posts_queue # <<>> /\ ~signalled) => main = "run"

\* C15: a platform whose credentials are missing has a worker whose status
\* is Starting and then Disabled, which never calls collect_continuous or
\* insert_posts, and the platform's post count stays 0
C15_MissingCredentialsDisabled ==
    \A p \in Platforms :
        (p \notin credentials /\ main = "run") =>
            /\ tpc[p] \in {"top", "sleep"}
            /\ collection_stats[p].status \in {"Starting", "Disabled"}
            /\ get_post_count(db, p) = 0

\* C20: after the shutdown signal a worker that was in its sleep or at the
\* head of its loop starts no further collection cycle, close() has
\* completed, and the posts inserted before the signal are kept
C20_NoCycleAfterSignal ==
    [][signalled =>
          /\ closed
          /\ \A p \in Platforms : ~(tpc[p] = "top" /\ tpc'[p] = "collect")
          /\ \A k \in Keys : RowsWithKey(db, k) # {} => RowsWithKey(db', k) # {}]_vars

\* a batch that the worker of p obtained from collect_continuous and that
\* has not been passed to insert_posts: in the worker's hands, or waiting on
\* posts_queue
BatchPending(p) ==
    \/ mode = "tui" /\ tposts[p] # <<>> /\ forwarded[p] = 0
    \/ \E i \in 1..Len(posts_queue) : posts_queue[i][1] = p

\* C21: when the shutdown signal leads to close(), every batch obtained
\* from collect_continuous before it has been passed to insert_posts: the
\* step of the signal handler, which calls close(), finds no batch pending
C21_BatchesFlushedBeforeClose ==
    [][(~signalled /\ signalled') =>
          \A p \in Platforms : ~BatchPending(p)]_vars

\* the worker of p has stopped: there is none, it left its loop or it
\* ended with the process
WorkerStopped(p) == tpc[p] \in {"none", "exited", "killed"}

\* C22: after the shutdown signal every worker eventually stops and the
\* process reaches its terminated state
C22_ShutdownCompletes ==
    signalled ~> (main = "exited" /\ \A p \in Platforms : WorkerStopped(p))

\* C23: once the running flag is cleared no worker calls collect_continuous
\* again and no worker enters a new sleep
C23_ClearedFlagStopsWorkers ==
    [][~running =>
          \A p \in Platforms :
              /\ ~(tpc[p] = "collect" /\ tpc'[p] # "collect"
                     /\ tpc'[p] # "killed")
              /\ ~(tpc[p] # "sleep" /\ tpc'[p] = "sleep")]_vars

\* the items of platform p on posts_queue, in queue order
ItemsOf(p) == SelectSeq(posts_queue, LAMBDA item : item[1] = p)

\* the batches of p on the queue are those put and not yet taken, in the
\* order of their puts, so that they are taken, and passed to
\* insert_posts, in the order the worker produced them
QueueInOrder(p) ==
    /\ Len(ItemsOf(p)) = put_count[p] - get_count[p]
    /\ \A i \in 1..Len(ItemsOf(p)) : ItemsOf(p)[i][3] = get_count[p] + i

C25_FailureIsolated ==
    \A q \in Platforms :
        (BatchPending(q) /\ get_count[q] = 0)
            ~> \/ mode = "tui" /\ forwarded[q] = 1
               \/ mode = "app" /\ get_count[q] > 0
               \/ signalled

\* worker w has called insert_posts or get_post_count (as _update_stats
\* does) and waits for SQLiteManager._lock
WaitsForLock(w) == pc[w] \in {"ip_wait", "gc_wait"} /\ ~LockFree

C27_SlotWrittenByOwner ==
    [][\A p \in Platforms :
         collection_stats'[p] # collection_stats[p] =>
            /\ tpc'[p] # tpc[p]
            /\ \A q \in Platforms \ {p} :
                  tpc'[q] = tpc[q] /\ collection_stats'[q] = collection_stats[q]]_vars

\* both workers have written their slots, to different statuses
C27_Witness ==
    \E p, q \in Platforms :
        /\ collection_stats[p].status = "Active" /\ collection_stats[p].size > 0
        /\ collection_stats[q].status = "Error"

\* C28: after every completed status update, under any interleaving of
\* the workers, total_posts is the sum of the platforms' post counters
C28_TotalIsSumOfCounters ==
    total_posts = SumPosts(collection_stats, Platforms)

\* both platforms have a non-zero counter after updates of both workers
C28_Witness ==
    /\ \A p \in Platforms : collection_stats[p].posts > 0
    /\ \A p \in Platforms : collection_stats[p].status # "Starting"

\* ------------------------------------------- claims: collector methods
\* C29: is_enabled() is fixed at construction: no collect,
\* collect_continuous, validate_config or test_connection call on the
\* collector, whether it succeeds or fails, changes the value
C29_EnabledFixedAtConstruction ==
    [][cstate = "constructed" => cenabled' = cenabled]_vars

\* a collect_continuous call in which the client raised and a
\* test_connection that failed have been made and left the collector
\* enabled
C29_Witness ==
    /\ CallMade /\ ClientFailed
    /\ ccall.name = "test_connection" /\ ccall.returned = FALSE
    /\ cenabled

\* the configuration is one validate_config has to report invalid: the
\* credentials are missing, the required list field (Reddit's
\* subreddits, Mastodon's instances) is missing, not a list or empty, or
\* the configured numeric bound is not an integer greater than 0
MustBeInvalid(platform, config, present) ==
    \/ ~present
    \/ platform \in {"reddit", "mastodon"} /\ ListInvalid(config)
    \/ BoundInvalid(config)

\* C30: validate_config of an enabled collector reports the configuration
\* invalid in exactly those cases
C30_ValidateConfigChecksAll ==
    (cenabled /\ ccall.name \in {"validate_config",
                                  "validate_config without credentials"}) =>
        (ccall.returned =
            ~MustBeInvalid(cplatform, cconfig, ccall.name = "validate_config"))

\* a create_tables call is made in this step
CreateTablesStep == ncreates' = ncreates + 1

\* C31: create_tables is idempotent: a call, the first or a later one, with
\* any platform list and between inserts, raises no error and leaves the
\* stored rows as they are
C31_CreateTablesIdempotent ==
    [][CreateTablesStep =>
          /\ db' = db
          /\ \E w \in Workers :
                op'[w] = "create_tables" /\ result'[w] = "ok"]_vars

\* create_tables has returned on a store that held rows before the manager
\* was constructed and rows inserted since
C31_Witness ==
    /\ \E w \in Workers : op[w] = "create_tables" /\ result[w] = "ok"
    /\ main_table
    /\ db0 # <<>>
    /\ Len(db) > Len(db0)

\* the keys stored in the table
StoredKeys(rows) == {k \in Keys : RowsWithKey(rows, k) # {}}

\* C32: no operation removes a stored post: over every step the set of
\* stored keys only grows and the count of every platform, and the total,
\* does not decrease
C32_NoRowRemoved ==
    [][/\ StoredKeys(db) \subseteq StoredKeys(db')
       /\ \A p \in Platforms \cup {None} :
             get_post_count(db', p) >= get_post_count(db, p)]_vars

\* a store that held rows has been through a create_tables call and an
\* insert that failed and was rolled back
C32_Witness ==
    /\ db0 # <<>>
    /\ \E w \in Workers : op[w] = "create_tables"
    /\ \E w \in Workers :
          /\ op[w] \in {"insert_posts", "insert_post"}
          /\ result[w] \in {"IntegrityError", "OperationalError"}

\* C33: insert_posts leaves the post objects of the caller's batch as they
\* were passed: over every step of a call in progress the batch is unchanged
C33_BatchUnchanged ==
    [][\A w \in Workers :
          (op[w] = "insert_posts" /\ pc[w] # "idle") =>
              batch'[w] = batch[w]]_vars

\* the batch holds a post of the row's key whose text differs from the row's
TextDiffers(row, posts) ==
    \E i \in 1..Len(posts) :
        PostKey(posts[i]) = PostKey(row) /\ posts[i].text # row.text

\* worker w's insert_posts call returns in this step without an error
InsertPostsReturns(w) ==
    pc[w] = "ip_locked" /\ pc'[w] = "idle" /\ result'[w] = "ok"

\* C34: an insert_posts call that succeeds changes a stored row if and only
\* if the batch brings a different text for its key; a post with the same
\* text and other metrics, payload or attributes leaves the row as it is
C34_UpdatedIffTextDiffers ==
    [][\A w \in Workers : InsertPostsReturns(w) =>
          \A n \in 1..Len(db) :
              (db'[n] # db[n]) <=> TextDiffers(db[n], batch[w])]_vars

\* the second worker, whose posts carry newer metrics and payload, has
\* re-submitted a stored post with the stored text and a stored post with
\* another text in one successful call
C34_Witness ==
    /\ op["w2"] = "insert_posts" /\ pc["w2"] = "idle" /\ result["w2"] = "ok"
    /\ Len(db0) = 2 /\ Len(batch["w2"]) = 2
    /\ PostKey(batch["w2"][1]) # PostKey(batch["w2"][2])
    /\ \A i \in 1..2 : \E n \in 1..2 : PostKey(db0[n]) = PostKey(batch["w2"][i])
    /\ \E n \in 1..2 : db[n] = db0[n]
    /\ \E n \in 1..2 : db[n] # db0[n]

\* worker w has called create_tables with platform p in the list and then
\* insert_posts with a batch of posts of p; nobody else has called anything
CreatedThenInserted(w, p) ==
    /\ separate_databases
    /\ ncreates = 1 /\ p \in platform_tables
    /\ \A v \in Workers \ {w} : op[v] = "none"
    /\ op[w] = "insert_posts" /\ pc[w] = "idle"
    /\ batch[w] # <<>>
    /\ \A i \in 1..Len(batch[w]) : batch[w][i].platform = p

\* C35: with separate_databases, after create_tables(platforms) a batch of
\* platform p, p in platforms, is inserted without error (storage outages
\* aside: a query on an existing table may fail) and its keys are stored in
\* p's own store
C35_SeparateStoreHoldsBatch ==
    \A w \in Workers : \A p \in Platforms :
        (CreatedThenInserted(w, p) /\ (main_table => result[w] = "ok")) =>
            /\ result[w] = "ok"
            /\ \A i \in 1..Len(batch[w]) :
                  PostKey(batch[w][i]) \in StoredKeys(platform_db[p])

\* worker w is blocked at a lock
AtStorageLock(w) == pc[w] \in {"ip_wait", "gc_wait"}
AtStatsLock(w) == spc[w] = "wait"

\* worker w is inside a call and its next step can be taken
CanProceed(w) ==
    \/ pc[w] = "ip_locked" /\ spc[w] = "out"
    \/ AtStorageLock(w) /\ lock = NoWorker
    \/ AtStatsLock(w) /\ stats_lock = NoWorker
    \/ spc[w] \in {"in", "counting"} /\ pc[w] = "idle"

\* C36: the workers never deadlock: a worker that waits for the status lock
\* holds no storage lock (the status lock is always the first of the two),
\* and whenever some worker is inside a call some worker can take its next
\* step
C36_NoDeadlock ==
    /\ \A w \in Workers : AtStatsLock(w) => lock # w
    /\ (\E w \in Workers : pc[w] # "idle" \/ spc[w] # "out") =>
           \E w \in Workers : CanProceed(w)

\* one worker holds the status lock and waits for the storage lock, which
\* the other worker holds inside insert_posts
C36_Witness ==
    \E w \in Workers : \E v \in Workers \ {w} :
        /\ stats_lock = w /\ pc[w] = "gc_wait"
        /\ lock = v /\ pc[v] = "ip_locked"

\* worker w's insert_posts or get_post_count call returns or raises in this
\* step
CallExits(w) == pc[w] # "idle" /\ pc'[w] = "idle"

\* C37: the storage lock is released on every exit path of insert_posts and
\* get_post_count: when a call returns or raises the lock is free, so the
\* next call of any worker can take it, and the lock is never with a worker
\* that is outside the locked section
C37_LockReleasedOnExit ==
    [][/\ \A w \in Workers : CallExits(w) => lock' = NoWorker
       /\ \A w \in Workers : pc'[w] # "ip_locked" => lock' # w]_vars

\* a call has raised and a call made after it has taken the lock: one
\* worker's last call failed, and the other, whose call is the second of
\* the two and began when no insert was in progress, is inside the locked
\* section
C37_Witness ==
    \E w \in Workers : \E v \in Workers \ {w} :
        /\ op[w] \in {"insert_posts", "get_post_count"}
        /\ pc[w] = "idle" /\ result[w] = "OperationalError"
        /\ op[v] = "insert_posts" /\ pc[v] = "ip_locked" /\ lock = v
        /\ ~overlap

\* the status of platform p shown by the TUI
StatusOf(stats, p) == stats[p].status

\* the thread of p makes an _update_stats call in this step: the Disabled or
\* Collecting update at the top of a cycle, the Active update, or the Error
\* update of the outer handler
WritesStatus(p) ==
    mode = "tui" /\ tpc'[p] # tpc[p] /\ tpc'[p] \in {"collect", "sleep"}

\* C38: a platform's status becomes Active only from Collecting, never
\* from Starting, Disabled, Error or Active; Collecting is written only
\* over another status, and the update that follows Collecting writes
\* Active or Error; no other step changes the status
C38_ActiveOnlyAfterCollecting ==
    [][\A p \in Platforms :
          LET old == StatusOf(collection_stats, p)
              new == StatusOf(collection_stats', p)
          IN  IF WritesStatus(p)
              THEN /\ new = "Active" => old = "Collecting"
                   /\ new = "Collecting" => old # "Collecting"
                   /\ old = "Collecting" => new \in {"Active", "Error"}
              ELSE new = old]_vars

\* one platform is Active with a stored batch in a cycle after an earlier
\* one, while another platform's cycle has ended in Error
C38_Witness ==
    \E p \in Platforms : \E q \in Platforms \ {p} :
        /\ mode = "tui"
        /\ StatusOf(collection_stats, p) = "Active"
        /\ collection_stats[p].size > 0
        /\ StatusOf(collection_stats, q) = "Error"

\* an insert_post call is made in this step (insert_posts leaves its call
\* step waiting for the lock)
InsertPostMade ==
    ncalls' = ncalls + 1 /\ nposts' = nposts + 1 /\ pc' = pc

\* the record of worker w's last call changes in this step
CallRecordChanges(w) ==
    <<op[w], batch[w], result[w], afterClose[w]>> #
        <<op'[w], batch'[w], result'[w], afterClose'[w]>>

\* worker w is the caller of the insert_post made in this step (any worker
\* whose last call was an insert_post, when the call repeats the caller's
\* previous one with the same outcome)
InsertPostStep(w) ==
    /\ InsertPostMade
    /\ op'[w] = "insert_post"
    /\ CallRecordChanges(w) \/ \A v \in Workers : ~CallRecordChanges(v)

\* C39: insert_post of a post whose key is stored raises (the uniqueness
\* error, or the error of a storage outage) and leaves the table as it was;
\* the uniqueness error is raised for a stored key only
C39_DuplicateInsertPostRaises ==
    [][InsertPostMade =>
          \E w \in Workers :
              /\ InsertPostStep(w)
              /\ LET stored == RowsWithKey(db, PostKey(batch'[w][1])) # {}
                 IN  /\ stored =>
                           /\ result'[w] \in {"IntegrityError", "OperationalError"}
                           /\ db' = db
                     /\ result'[w] = "IntegrityError" => stored]_vars

\* insert_post has raised the uniqueness error for a key that a batch
\* insert stored before
C39_Witness ==
    \E w \in Workers :
        /\ op[w] = "insert_post" /\ result[w] = "IntegrityError"
        /\ RowsWithKey(db, PostKey(batch[w][1])) # {}
        /\ RowsWithKey(db0, PostKey(batch[w][1])) = {}

\* collect_data was asked for platform p
Requested(p) == \E i \in 1..Len(requested) : requested[i] = p

\* p has a collector, which is enabled
HasEnabledCollector(p) == p \in collectors /\ enabled[p]

\* C40: the dictionary collect_data returns has no entry for a platform
\* that was not asked for, has no collector or has a disabled one; a
\* platform whose collect or insert_posts raised has the entry 0; every
\* other platform asked for, also after one that raised, has the number of
\* posts its collector returned, and these posts are stored
C40_PlatformsIndependent ==
    main = "returned" =>
        \A p \in PlatformNames :
            IF Requested(p) /\ HasEnabledCollector(p)
            THEN /\ p \in DOMAIN results
                 /\ results[p] = IF raised[p] # "none" THEN 0 ELSE Len(tposts[p])
                 /\ raised[p] = "none" =>
                        \A i \in 1..Len(tposts[p]) :
                            PostKey(tposts[p][i]) \in StoredKeys(db)
            ELSE p \notin DOMAIN results

\* collect_data has returned for two platforms: the first one's collect or
\* insert raised, and the second one's post, new to the store, is counted
C40_Witness ==
    /\ main = "returned"
    /\ Len(requested) = 2 /\ requested[1] # requested[2]
    /\ requested[1] \in collectors /\ requested[2] \in collectors
    /\ raised[requested[1]] # "none" /\ results[requested[1]] = 0
    /\ raised[requested[2]] = "none" /\ results[requested[2]] = 1
    /\ Len(db) > Len(db0)

====
